---- MODULE Spec2Model ----
(***************************************************************************)
(* A model of the TRACE decoder of Src/traceDecoder.c: the ETMv3.5 octet   *)
(* state machine, the MTB pair decoder, the pump facade, sync control and  *)
(* the change-query interface.                                             *)
(*                                                                         *)
(* Machine words (uint32_t / uint64_t accumulators and addresses) are      *)
(* held as the set of their 1-bit positions, so that masks are set         *)
(* differences, ORs are unions and a shift moves every position; bits      *)
(* shifted beyond the word's width are dropped, as the unsigned store      *)
(* does.  Octets and small counters are plain naturals.                    *)
(***************************************************************************)
EXTENDS Integers, FiniteSets, Sequences, TLC

VARIABLES
    i,        \* the struct TRACEDecoder instance (with its cpu and stats)
    cbCount,  \* how many times the last operation invoked the message callback
    op,       \* the last operation: its kind, its argument(s), its return value,
              \* the protoState it started in (from)
    zrun,     \* how many 0x00 octets, and nothing else, have been pumped since the
              \* decoder was UNSYNCED with asyncCount = 0 (-1: not in such a run)
    trapped   \* an assert( false ) was reached: the program has aborted

vars == <<i, cbCount, op, zrun, trapped>>

----------------------------------------------------------------------------
(* Bit arithmetic *)

\* The powers of two below 2^31
Pow2Table ==
    <<1, 2, 4, 8, 16, 32, 64, 128, 256, 512, 1024, 2048, 4096, 8192, 16384, 32768,
      65536, 131072, 262144, 524288, 1048576, 2097152, 4194304, 8388608, 16777216,
      33554432, 67108864, 134217728, 268435456, 536870912, 1073741824>>

\* 2^n for n in 0..30
Pow2(n) == Pow2Table[n + 1]

\* The 1-bit positions of a natural below 2^31
Bits(n) == {k \in 0..(IF n < 256 THEN 7 ELSE 30) : (n \div Pow2(k)) % 2 = 1}

RECURSIVE BitAndRec(_, _)
\* a & b on naturals, bit by bit
BitAndRec(a, b) ==
    IF a = 0 \/ b = 0 THEN 0
    ELSE (IF a % 2 = 1 /\ b % 2 = 1 THEN 1 ELSE 0) + 2 * BitAndRec(a \div 2, b \div 2)

\* a & b tabulated for octets
AndTable == [a \in 0..255 |-> [b \in 0..255 |-> BitAndRec(a, b)]]

\* a & b on naturals
BitAnd(a, b) == IF a < 256 /\ b < 256 THEN AndTable[a][b] ELSE BitAndRec(a, b)

\* a | b on naturals
BitOr(a, b) == a + b - BitAnd(a, b)

\* S << n stored into a word of the given width (n may be negative: a right shift)
Shl(S, n, width) == {b + n : b \in S} \cap (0..(width - 1))

RECURSIVE AddBits(_, _, _, _, _)
AddBits(A, B, k, carry, width) ==
    IF k >= width THEN {}
    ELSE LET s == (IF k \in A THEN 1 ELSE 0) + (IF k \in B THEN 1 ELSE 0) + carry
         IN  (IF s % 2 = 1 THEN {k} ELSE {}) \cup AddBits(A, B, k + 1, s \div 2, width)

\* A + B modulo 2^32
Add32(A, B) == AddBits(A, B, 0, 0, 32)

----------------------------------------------------------------------------
(* Enumerations *)

TRACE_PROT_ETM35 == "ETM35"
TRACE_PROT_MTB   == "MTB"

TRACE_UNSYNCED              == "UNSYNCED"
TRACE_IDLE                  == "IDLE"
TRACE_COLLECT_BA_STD_FORMAT == "COLLECT_BA_STD_FORMAT"
TRACE_COLLECT_BA_ALT_FORMAT == "COLLECT_BA_ALT_FORMAT"
TRACE_COLLECT_EXCEPTION     == "COLLECT_EXCEPTION"
TRACE_GET_VMID              == "GET_VMID"
TRACE_GET_TSTAMP            == "GET_TSTAMP"
TRACE_GET_CYCLECOUNT        == "GET_CYCLECOUNT"
TRACE_GET_CONTEXTID         == "GET_CONTEXTID"
TRACE_WAIT_ISYNC            == "WAIT_ISYNC"
TRACE_GET_CONTEXTBYTE       == "GET_CONTEXTBYTE"
TRACE_GET_INFOBYTE          == "GET_INFOBYTE"
TRACE_GET_IADDRESS          == "GET_IADDRESS"
TRACE_GET_ICYCLECOUNT       == "GET_ICYCLECOUNT"

TRACE_ADDRMODE_ARM     == "ARM"
TRACE_ADDRMODE_THUMB   == "THUMB"
TRACE_ADDRMODE_JAZELLE == "JAZELLE"

TRACE_EV_NONE     == "EV_NONE"
TRACE_EV_MSG_RXED == "EV_MSG_RXED"

\* The change kinds (enum TRACEchanges), one bit of cpu.changeRecord each
ChangeKinds ==
    {"ADDRESS", "EXCEPTION", "CANCELLED", "ALTISA", "HYP", "SECURE", "JAZELLE",
     "THUMB", "REASON", "ISLSIP", "CONTEXTID", "VMID", "TSTAMP", "CYCLECOUNT",
     "TRACESTART", "LINEAR", "ENATOMS", "WATOMS", "EX_ENTRY", "EX_EXIT",
     "TRIGGER", "CLOCKSPEED", "RESUME"}

\* The change kind whose enumeration value is 0 (the header puts EV_CH_EX_ENTRY first)
EV_CH_0 == "EX_ENTRY"

----------------------------------------------------------------------------
(* Internal routines *)

\* (mutant) the change bit assigned, not ORed in
StateChange_Assign(d, c) == [d EXCEPT !.cpu.changeRecord = {c}]

\* i->cpu.changeRecord |= ( 1 << c )
StateChange(d, c) == [d EXCEPT !.cpu.changeRecord = @ \cup {c}]


\* What a handler hands back: the decoder as it leaves it (newState held in .p) and retVal
R(d, ev) == [d |-> d, ev |-> ev]

\* x << n computed in a 32-bit int: for n >= 32 the shift is undefined in C and
\* the build either takes the count modulo 32 or shifts everything out
ShiftBuilds == {"mod32", "zero"}

Shl32(S, n, ub) ==
    IF n < 32 THEN Shl(S, n, 32)
    ELSE IF ub = "mod32" THEN Shl(S, n % 32, 32) ELSE {}

\* Offset for bits in address calculation
AddrOfs(d) ==
    IF d.cpu.addrMode = TRACE_ADDRMODE_ARM THEN 1
    ELSE IF d.cpu.addrMode = TRACE_ADDRMODE_THUMB THEN 0 ELSE -1

\* (mutant) terminateAddrByte without the cap at five octets
TerminateAddrByte_NoCap(d, c, C, X) ==
    IF ~C
    THEN LET d1 == [d EXCEPT !.cpu.addr = d.addrConstruct] IN
         IF ~X
         THEN R([d1 EXCEPT !.p = TRACE_IDLE], TRACE_EV_MSG_RXED)
         ELSE LET d2 == [d1 EXCEPT !.byteCount = 0, !.cpu.resume = 0]
                  d3 == StateChange(d2, "EX_ENTRY")
              IN  R([d3 EXCEPT !.p = TRACE_COLLECT_EXCEPTION], TRACE_EV_NONE)
    ELSE R(d, TRACE_EV_NONE)

\* terminateAddrByte: see if the address is complete, and process if so
TerminateAddrByte(d, c, C, X) ==
    IF (~C) \/ d.byteCount = 5
    THEN LET d1 == [d EXCEPT !.cpu.addr = d.addrConstruct] IN
         IF d1.byteCount = 5 /\ d1.cpu.addrMode = TRACE_ADDRMODE_ARM /\ C
         THEN \* (legacy) exception information
              LET d2 == [d1 EXCEPT !.cpu.exception = (c \div 16) % 8]
                  d3 == StateChange(d2, "EXCEPTION")
                  d4 == StateChange(d3, IF BitAnd(c, 64) # 0 THEN "CANCELLED" ELSE EV_CH_0)
              IN  R([d4 EXCEPT !.p = TRACE_IDLE], TRACE_EV_MSG_RXED)
         ELSE IF (~C) /\ (~X)
         THEN R([d1 EXCEPT !.p = TRACE_IDLE], TRACE_EV_MSG_RXED)
         ELSE LET d2 == [d1 EXCEPT !.byteCount = 0, !.cpu.resume = 0]
                  d3 == StateChange(d2, "EX_ENTRY")
              IN  R([d3 EXCEPT !.p = TRACE_COLLECT_EXCEPTION], TRACE_EV_NONE)
    ELSE R(d, TRACE_EV_NONE)

\* case TRACE_IDLE, c & 0b1: branch packet, byte 0
IdleBranch(d, c) ==
    LET seeded ==
            IF d.cpu.addrMode = TRACE_ADDRMODE_ARM
            THEN (d.addrConstruct \ Bits(252)) \cup Shl(Bits(BitAnd(c, 126)), 1, 32)
            ELSE IF d.cpu.addrMode = TRACE_ADDRMODE_THUMB
            THEN (d.addrConstruct \ Bits(127)) \cup Bits(BitAnd(c, 126))
            ELSE (d.addrConstruct \ Bits(63)) \cup Shl(Bits(BitAnd(c, 126)), -1, 32)
        d1 == [d EXCEPT !.addrConstruct = seeded, !.byteCount = 1]
        d2 == StateChange(d1, "ADDRESS")
        d3 == [d2 EXCEPT !.p = IF d.usingAltAddrEncode THEN TRACE_COLLECT_BA_ALT_FORMAT
                                 ELSE TRACE_COLLECT_BA_STD_FORMAT]
    IN  TerminateAddrByte(d3, c, BitAnd(c, 128) # 0, FALSE)

\* (mutant) the E field taken with a mask one bit too wide
Format1Eatoms_WideMask(c) == BitAnd(c, 124) \div 4

\* Format-1 P-header fields (non cycle-accurate): ( c & 0x3C ) >> 2
Format1Eatoms(c) == BitAnd(c, 60) \div 4

\* (mutant) the N field read from bit 7
Format1Natoms_Bit7(c) == IF BitAnd(c, 128) # 0 THEN 1 ELSE 0

\* ( c & ( 1 << 6 ) ) ? 1 : 0
Format1Natoms(c) == IF BitAnd(c, 64) # 0 THEN 1 ELSE 0

\* ( c & 0b10000011 ) == 0b10000000
IsFormat1(c) == BitAnd(c, 131) = 128

\* (mutant) the Format-1 P-header storing its atoms as the instruction count
PHeaderFormat1_AssignsCount(d, c) ==
    LET e  == Format1Eatoms(c)
        n  == Format1Natoms(c)
        d1 == [d EXCEPT !.cpu.eatoms = e, !.cpu.natoms = n,
                        !.cpu.instCount = e + n,
                        !.cpu.disposition = Pow2(e) - 1]
    IN  R(StateChange(d1, "ENATOMS"), TRACE_EV_MSG_RXED)

\* The Format-1 P-header (non cycle-accurate)
PHeaderFormat1(d, c) ==
    LET e  == Format1Eatoms(c)
        n  == Format1Natoms(c)
        d1 == [d EXCEPT !.cpu.eatoms = e, !.cpu.natoms = n,
                        !.cpu.instCount = @ + e + n,
                        !.cpu.disposition = Pow2(e) - 1]
    IN  R(StateChange(d1, "ENATOMS"), TRACE_EV_MSG_RXED)

Bit(c, k) == (c \div Pow2(k)) % 2

B2N(b) == IF b THEN 1 ELSE 0

\* (mutant) an unprocessed P-header dropping synchronisation
PHeaderPlain_DesyncsOnError(d, c) ==
    IF IsFormat1(c) THEN PHeaderFormat1(d, c)
    ELSE IF BitAnd(c, 243) = 130
    THEN LET e  == B2N(Bit(c, 2) = 0) + B2N(Bit(c, 3) = 0)
             d1 == [d EXCEPT !.cpu.eatoms = e, !.cpu.natoms = 2 - e,
                             !.cpu.disposition = B2N(Bit(c, 3) = 0) + 2 * B2N(Bit(c, 2) = 0)]
             d2 == StateChange(d1, "ENATOMS")
         IN  R([d2 EXCEPT !.cpu.instCount = @ + 2], TRACE_EV_MSG_RXED)
    ELSE R([d EXCEPT !.p = TRACE_UNSYNCED], TRACE_EV_NONE)

\* case TRACE_IDLE, ( c & 0b10000001 ) == 0b10000000, !cycleAccurate
PHeaderPlain(d, c) ==
    IF IsFormat1(c) THEN PHeaderFormat1(d, c)
    ELSE IF BitAnd(c, 243) = 130
    THEN \* Format-2 P-header
         LET e  == B2N(Bit(c, 2) = 0) + B2N(Bit(c, 3) = 0)
             d1 == [d EXCEPT !.cpu.eatoms = e, !.cpu.natoms = 2 - e,
                             !.cpu.disposition = B2N(Bit(c, 3) = 0) + 2 * B2N(Bit(c, 2) = 0)]
             d2 == StateChange(d1, "ENATOMS")
         IN  R([d2 EXCEPT !.cpu.instCount = @ + 2], TRACE_EV_MSG_RXED)
    ELSE R(d, TRACE_EV_NONE)   \* Unprocessed P-Header

\* Both change bits of a cycle-accurate P-header
CAChanges(d) == StateChange(StateChange(d, "ENATOMS"), "WATOMS")

\* case TRACE_IDLE, ( c & 0b10000001 ) == 0b10000000, cycleAccurate
PHeaderCycleAccurate(d, c) ==
    IF c = 128
    THEN \* Format 0
         R(CAChanges([d EXCEPT !.cpu.watoms = 1, !.cpu.instCount = @ + 1,
                               !.cpu.eatoms = 0, !.cpu.natoms = 0]), TRACE_EV_MSG_RXED)
    ELSE IF BitAnd(c, 163) = 128
    THEN \* Format 1
         LET e == BitAnd(c, 28) \div 4
             n == B2N(BitAnd(c, 64) # 0)
         IN  R(CAChanges([d EXCEPT !.cpu.eatoms = e, !.cpu.natoms = n, !.cpu.watoms = e + n,
                                   !.cpu.instCount = @ + e + n,
                                   !.cpu.disposition = Pow2(e) - 1]), TRACE_EV_MSG_RXED)
    ELSE IF BitAnd(c, 243) = 130
    THEN \* Format 2
         LET e == B2N(Bit(c, 2) # 0) + B2N(Bit(c, 3) # 0)
         IN  R(CAChanges([d EXCEPT !.cpu.eatoms = e, !.cpu.natoms = 2 - e, !.cpu.watoms = 1,
                                   !.cpu.instCount = @ + 1,
                                   !.cpu.disposition =
                                       B2N(Bit(c, 3) # 0 \/ Bit(c, 2) # 0)]), TRACE_EV_MSG_RXED)
    ELSE IF BitAnd(c, 160) = 160
    THEN \* Format 3
         LET e == B2N(BitAnd(c, 64) # 0)
             w == BitAnd(c, 28) \div 4
         IN  R(CAChanges([d EXCEPT !.cpu.eatoms = e, !.cpu.natoms = 0, !.cpu.watoms = w,
                                   !.cpu.instCount = @ + w,
                                   !.cpu.disposition = e]), TRACE_EV_MSG_RXED)
    ELSE IF BitAnd(c, 251) = 146
    THEN \* Format 4
         LET e == B2N(BitAnd(c, 4) # 0)
         IN  R(CAChanges([d EXCEPT !.cpu.eatoms = e, !.cpu.natoms = B2N(BitAnd(c, 4) = 0),
                                   !.cpu.watoms = 0,
                                   !.cpu.disposition = e]), TRACE_EV_MSG_RXED)
    ELSE R(d, TRACE_EV_NONE)   \* Unprocessed Cycle-accurate P-Header

\* The Normal ISYNC header: reporting starts with the first valid ISYNC
IdleISync(d) ==
    LET d1 == [d EXCEPT !.byteCount = 0, !.contextConstruct = {},
                        !.p = IF d.contextBytes # 0 THEN TRACE_GET_CONTEXTBYTE
                              ELSE TRACE_GET_INFOBYTE]
    IN  IF ~d.rxedISYNC
        THEN R([d1 EXCEPT !.cpu.changeRecord = {}, !.rxedISYNC = TRUE], TRACE_EV_NONE)
        ELSE R(d1, TRACE_EV_NONE)

\* case TRACE_IDLE
Idle(d, c) ==
    IF c % 2 = 1 THEN IdleBranch(d, c)
    ELSE IF c = 0 THEN R(d, TRACE_EV_NONE)                            \* A-Sync filler
    ELSE IF c = 4                                                     \* Cycle count
    THEN R([d EXCEPT !.byteCount = 0, !.cycleConstruct = {}, !.p = TRACE_GET_CYCLECOUNT],
           TRACE_EV_NONE)
    ELSE IF c = 8 THEN IdleISync(d)                                   \* Normal ISYNC
    ELSE IF c = 112                                                   \* ISYNC with cycle count
    THEN R([d EXCEPT !.byteCount = 0, !.cycleConstruct = {}, !.p = TRACE_GET_ICYCLECOUNT],
           TRACE_EV_NONE)
    ELSE IF c = 12 THEN R(StateChange(d, "TRIGGER"), TRACE_EV_MSG_RXED)
    ELSE IF c = 60 THEN R([d EXCEPT !.p = TRACE_GET_VMID], TRACE_EV_NONE)
    ELSE IF BitAnd(c, 251) = 66                                       \* Timestamp
    THEN LET d1 == [d EXCEPT !.p = TRACE_GET_TSTAMP]
             d2 == IF BitAnd(c, 4) # 0 THEN StateChange(d1, "CLOCKSPEED") ELSE d1
         IN  R([d2 EXCEPT !.byteCount = 0], TRACE_EV_NONE)
    ELSE IF c = 102 THEN R(d, TRACE_EV_NONE)                          \* Ignore
    ELSE IF c = 110                                                   \* ContextID
    THEN R([d EXCEPT !.p = TRACE_GET_CONTEXTID, !.cpu.contextID = {}, !.byteCount = 0],
           TRACE_EV_NONE)
    ELSE IF c = 118 THEN R(StateChange(d, "EX_EXIT"), TRACE_EV_MSG_RXED)
    ELSE IF c = 126 THEN R(StateChange(d, "EX_ENTRY"), TRACE_EV_MSG_RXED)
    ELSE IF BitAnd(c, 129) = 128
    THEN IF ~d.cycleAccurate THEN PHeaderPlain(d, c) ELSE PHeaderCycleAccurate(d, c)
    ELSE R(d, TRACE_EV_NONE)

\* case TRACE_COLLECT_BA_ALT_FORMAT
CollectBAAlt(d, c) ==
    LET C    == BitAnd(c, 128) # 0
        mask == IF C THEN 127 ELSE 63
        sh   == 7 * d.byteCount + AddrOfs(d)
        d1   == [d EXCEPT !.addrConstruct =
                              (@ \ Shl(Bits(mask), sh, 32)) \cup Shl(Bits(BitAnd(c, mask)), sh, 32),
                          !.byteCount = @ + 1]
    IN  TerminateAddrByte(d1, c, C, (~C) /\ BitAnd(c, 64) # 0)

\* case TRACE_COLLECT_BA_STD_FORMAT: the octet is masked with the shifted window, not shifted
CollectBAStd(d, c) ==
    LET sh == 7 * d.byteCount + AddrOfs(d)
        w  == Shl(Bits(127), sh, 32)
        d1 == [d EXCEPT !.addrConstruct = (@ \ w) \cup (Bits(c) \cap w),
                        !.byteCount = @ + 1]
        C  == IF d1.byteCount < 5 THEN BitAnd(c, 128) # 0 ELSE BitAnd(c, 64) # 0
    IN  TerminateAddrByte(d1, c, C, d1.byteCount = 5 /\ C)

\* case TRACE_COLLECT_EXCEPTION
CollectException(d, c) ==
    IF d.byteCount = 0
    THEN LET ns == BitAnd(c, 1) # 0
             d1 == IF ns # d.cpu.nonSecure
                   THEN StateChange([d EXCEPT !.cpu.nonSecure = ns], "SECURE") ELSE d
             d2 == [d1 EXCEPT !.cpu.exception = (c \div 2) % 16]
             d3 == StateChange(d2, IF BitAnd(c, 32) # 0 THEN "CANCELLED" ELSE EV_CH_0)
             ai == BitAnd(c, 64) # 0
             d4 == IF d3.cpu.altISA # ai
                   THEN StateChange([d3 EXCEPT !.cpu.altISA = ai], "ALTISA") ELSE d3
         IN  IF BitAnd(c, 128) # 0
             THEN R([d4 EXCEPT !.byteCount = @ + 1], TRACE_EV_NONE)
             ELSE R([d4 EXCEPT !.p = TRACE_IDLE], TRACE_EV_MSG_RXED)
    ELSE IF BitAnd(c, 128) # 0
    THEN \* exception byte 1
         LET d1 == [d EXCEPT !.cpu.exception = BitOr(@, BitAnd(c, 31) * 16)]
             hy == BitAnd(c, 32) # 0
             d2 == IF d1.cpu.hyp # hy
                   THEN StateChange([d1 EXCEPT !.cpu.hyp = hy], "HYP") ELSE d1
         IN  IF BitAnd(c, 64) = 0
             THEN R([d2 EXCEPT !.p = TRACE_IDLE], TRACE_EV_MSG_RXED)
             ELSE R(d2, TRACE_EV_NONE)
    ELSE \* exception byte 2
         LET d1 == [d EXCEPT !.cpu.resume = BitAnd(c, 15)]
             d2 == IF d1.cpu.resume # 0 THEN StateChange(d1, "RESUME") ELSE d1
         IN  R([d2 EXCEPT !.p = TRACE_IDLE], TRACE_EV_MSG_RXED)

\* case TRACE_GET_VMID
GetVMID(d, c) ==
    LET d1 == IF d.cpu.vmid # c THEN StateChange([d EXCEPT !.cpu.vmid = c], "VMID") ELSE d
    IN  R([d1 EXCEPT !.p = TRACE_IDLE], TRACE_EV_MSG_RXED)

\* (mutant) the timestamp octets placed seven bits apart
GetTStamp_SevenBitSteps(d, c) ==
    LET n  == d.byteCount
        ts == IF n < 8
              THEN (d.tsConstruct \ Shl(Bits(127), 7 * n, 64))
                       \cup Shl(Bits(BitAnd(c, 127)), 7 * n, 64)
              ELSE (d.tsConstruct \ Shl(Bits(255), 7 * n, 64))
                       \cup Shl(Bits(BitAnd(c, 255)), 7 * n, 64)
        d1 == [d EXCEPT !.tsConstruct = ts, !.byteCount = @ + 1]
    IN  IF BitAnd(c, 128) = 0 \/ d1.byteCount = 9
        THEN R(StateChange([d1 EXCEPT !.p = TRACE_IDLE, !.cpu.ts = ts], "TSTAMP"),
               TRACE_EV_MSG_RXED)
        ELSE R(d1, TRACE_EV_NONE)

\* case TRACE_GET_TSTAMP (tsConstruct is 64 bits wide)
GetTStamp(d, c) ==
    LET n  == d.byteCount
        ts == IF n < 8
              THEN (d.tsConstruct \ Shl(Bits(127), n, 64)) \cup Shl(Bits(BitAnd(c, 127)), n, 64)
              ELSE (d.tsConstruct \ Shl(Bits(255), n, 64)) \cup Shl(Bits(BitAnd(c, 255)), n, 64)
        d1 == [d EXCEPT !.tsConstruct = ts, !.byteCount = @ + 1]
    IN  IF BitAnd(c, 128) = 0 \/ d1.byteCount = 9
        THEN R(StateChange([d1 EXCEPT !.p = TRACE_IDLE, !.cpu.ts = ts], "TSTAMP"),
               TRACE_EV_MSG_RXED)
        ELSE R(d1, TRACE_EV_NONE)

\* The cycle-count accumulation shared by TRACE_GET_CYCLECOUNT and TRACE_GET_ICYCLECOUNT
CycleAccumulate(d, c) ==
    [d EXCEPT !.cycleConstruct = (@ \ Shl(Bits(127), 7 * d.byteCount, 32))
                                 \cup Shl(Bits(BitAnd(c, 127)), 7 * d.byteCount, 32),
              !.byteCount = @ + 1]

\* case TRACE_GET_CYCLECOUNT
GetCycleCount(d, c) ==
    LET d1 == CycleAccumulate(d, c)
    IN  IF BitAnd(c, 128) = 0 \/ d1.byteCount = 5
        THEN R(StateChange([d1 EXCEPT !.p = TRACE_IDLE, !.cpu.cycleCount = d1.cycleConstruct],
                           "CYCLECOUNT"), TRACE_EV_MSG_RXED)
        ELSE R(d1, TRACE_EV_NONE)

\* contextConstruct + ( c << ( 8 * byteCount ) ), then byteCount++
ContextAccumulate(d, c, ub) ==
    [d EXCEPT !.contextConstruct = Add32(@, Shl32(Bits(c), 8 * d.byteCount, ub)),
              !.byteCount = @ + 1]

\* Commit the context ID when it differs
ContextCommit(d) ==
    IF d.cpu.contextID # d.contextConstruct
    THEN StateChange([d EXCEPT !.cpu.contextID = d.contextConstruct], "CONTEXTID")
    ELSE d

\* case TRACE_GET_CONTEXTID
GetContextID(d, c, ub) ==
    LET d1 == ContextAccumulate(d, c, ub)
    IN  IF d1.byteCount = d1.contextBytes
        THEN R([ContextCommit(d1) EXCEPT !.p = TRACE_IDLE], TRACE_EV_MSG_RXED)
        ELSE R(d1, TRACE_EV_NONE)

\* case TRACE_WAIT_ISYNC
WaitISync(d, c) ==
    IF c = 8
    THEN R([d EXCEPT !.rxedISYNC = TRUE, !.byteCount = d.contextBytes,
                     !.contextConstruct = {},
                     !.p = IF d.contextBytes # 0 THEN TRACE_GET_CONTEXTBYTE
                           ELSE TRACE_GET_INFOBYTE],
           IF ~d.rxedISYNC THEN "EV_SYNCED" ELSE TRACE_EV_NONE)
    ELSE R(d, TRACE_EV_NONE)

\* case TRACE_GET_CONTEXTBYTE
GetContextByte(d, c, ub) ==
    LET d1 == ContextAccumulate(d, c, ub)
    IN  IF d1.byteCount = d1.contextBytes
        THEN R([ContextCommit(d1) EXCEPT !.p = TRACE_GET_INFOBYTE], TRACE_EV_NONE)
        ELSE R(d1, TRACE_EV_NONE)

\* One info-byte flag: the field f follows v, raising change kind k on a transition
InfoFlag(d, f, v, k) ==
    IF d.cpu[f] # v THEN StateChange([d EXCEPT !.cpu[f] = v], k) ELSE d

\* (mutant) the LSiP mask within the octet: 0x80 for 0x10000000
GetInfoByte_LSiPInOctet(d, c) ==
    LET d1 == InfoFlag(d,  "isLSiP",    BitAnd(c, 128) # 0, "ISLSIP")
        d2 == InfoFlag(d1, "reason",    BitAnd(c, 17825792) \div 32, "REASON")
        d3 == InfoFlag(d2, "jazelle",   BitAnd(c, 65536) # 0, "JAZELLE")
        d4 == InfoFlag(d3, "nonSecure", BitAnd(c, 4096) # 0, "SECURE")
        d5 == InfoFlag(d4, "altISA",    BitAnd(c, 256) # 0, "ALTISA")
        d6 == InfoFlag(d5, "hyp",       BitAnd(c, 16) # 0, "HYP")
        d7 == [d6 EXCEPT !.byteCount = 0]
    IN  IF d7.dataOnlyMode
        THEN R([d7 EXCEPT !.p = TRACE_IDLE], TRACE_EV_MSG_RXED)
        ELSE R([d7 EXCEPT !.p = TRACE_GET_IADDRESS], TRACE_EV_NONE)

\* case TRACE_GET_INFOBYTE: the masks are the source's, applied to the octet
GetInfoByte(d, c) ==
    LET d1 == InfoFlag(d,  "isLSiP",    BitAnd(c, 268435456) # 0, "ISLSIP")
        d2 == InfoFlag(d1, "reason",    BitAnd(c, 17825792) \div 32, "REASON")
        d3 == InfoFlag(d2, "jazelle",   BitAnd(c, 65536) # 0, "JAZELLE")
        d4 == InfoFlag(d3, "nonSecure", BitAnd(c, 4096) # 0, "SECURE")
        d5 == InfoFlag(d4, "altISA",    BitAnd(c, 256) # 0, "ALTISA")
        d6 == InfoFlag(d5, "hyp",       BitAnd(c, 16) # 0, "HYP")
        d7 == [d6 EXCEPT !.byteCount = 0]
    IN  IF d7.dataOnlyMode
        THEN R([d7 EXCEPT !.p = TRACE_IDLE], TRACE_EV_MSG_RXED)
        ELSE R([d7 EXCEPT !.p = TRACE_GET_IADDRESS], TRACE_EV_NONE)

\* (mutant) the ARM address committed without its two low bits masked
GetIAddress_ARMUnmasked(d, c) ==
    LET sh == 8 * d.byteCount
        ac == (d.addrConstruct \ Shl(Bits(255), sh, 32)) \cup Shl(Bits(c), sh, 32)
        d1 == [d EXCEPT !.addrConstruct = ac, !.byteCount = @ + 1]
    IN  IF d1.byteCount = 4
        THEN LET d2 == StateChange(d1, "ADDRESS")
                 d3 == IF 0 \in ac
                       THEN [d2 EXCEPT !.cpu.addrMode = TRACE_ADDRMODE_THUMB,
                                       !.addrConstruct = ac \ {0}, !.cpu.addr = ac \ {0}]
                       ELSE [d2 EXCEPT !.cpu.addrMode = TRACE_ADDRMODE_ARM, !.cpu.addr = ac]
             IN  R([d3 EXCEPT !.p = TRACE_IDLE], TRACE_EV_MSG_RXED)
        ELSE R(d1, TRACE_EV_NONE)

\* case TRACE_GET_IADDRESS
GetIAddress(d, c) ==
    LET sh == 8 * d.byteCount
        ac == (d.addrConstruct \ Shl(Bits(255), sh, 32)) \cup Shl(Bits(c), sh, 32)
        d1 == [d EXCEPT !.addrConstruct = ac, !.byteCount = @ + 1]
    IN  IF d1.byteCount = 4
        THEN LET d2 == StateChange(d1, "ADDRESS")
                 d3 == IF d2.cpu.jazelle
                       THEN [d2 EXCEPT !.cpu.addrMode = TRACE_ADDRMODE_JAZELLE, !.cpu.addr = ac]
                       ELSE LET t == IF (0 \in ac) # (~d2.cpu.thumb)
                                     THEN StateChange([d2 EXCEPT !.cpu.thumb = BitAnd(c, 1) # 0],
                                                      "THUMB")
                                     ELSE d2
                            IN  IF 0 \in ac
                                THEN [t EXCEPT !.cpu.addrMode = TRACE_ADDRMODE_THUMB,
                                               !.addrConstruct = ac \ {0},
                                               !.cpu.addr = ac \ {0}]
                                ELSE [t EXCEPT !.cpu.addrMode = TRACE_ADDRMODE_ARM,
                                               !.cpu.addr = ac \ {0, 1}]
             IN  IF d3.cpu.isLSiP
                 THEN R([d3 EXCEPT !.p = IF d3.usingAltAddrEncode
                                         THEN TRACE_COLLECT_BA_ALT_FORMAT
                                         ELSE TRACE_COLLECT_BA_STD_FORMAT], TRACE_EV_NONE)
                 ELSE R([d3 EXCEPT !.p = TRACE_IDLE], TRACE_EV_MSG_RXED)
        ELSE R(d1, TRACE_EV_NONE)

\* (mutant) the cycle count of an ISYNC with cycle count followed by a wait
\* for the Normal ISYNC header
GetICycleCount_WaitsForISync(d, c) ==
    LET d1 == CycleAccumulate(d, c)
    IN  IF BitAnd(c, 128) = 0 \/ d1.byteCount = 5
        THEN R(StateChange([d1 EXCEPT !.cpu.cycleCount = d1.cycleConstruct,
                                      !.byteCount = d1.contextBytes,
                                      !.contextConstruct = {},
                                      !.p = TRACE_WAIT_ISYNC],
                           "CYCLECOUNT"), TRACE_EV_NONE)
        ELSE R(d1, TRACE_EV_NONE)

\* case TRACE_GET_ICYCLECOUNT
GetICycleCount(d, c) ==
    LET d1 == CycleAccumulate(d, c)
    IN  IF BitAnd(c, 128) = 0 \/ d1.byteCount = 5
        THEN R(StateChange([d1 EXCEPT !.cpu.cycleCount = d1.cycleConstruct,
                                      !.byteCount = d1.contextBytes,
                                      !.contextConstruct = {},
                                      !.p = IF d1.contextBytes # 0 THEN TRACE_GET_CONTEXTBYTE
                                            ELSE TRACE_GET_INFOBYTE],
                           "CYCLECOUNT"), TRACE_EV_NONE)
        ELSE R(d1, TRACE_EV_NONE)

\* (mutant) the break of case TRACE_UNSYNCED missing: falls through to TRACE_IDLE
Unsynced_FallsThrough(d, c) == Idle(d, c)

\* case TRACE_UNSYNCED: break
Unsynced(d, c) == R(d, TRACE_EV_NONE)

\* switch ( i->p )
Dispatch(d, c, ub) ==
    CASE d.p = TRACE_UNSYNCED              -> Unsynced(d, c)
      [] d.p = TRACE_IDLE                  -> Idle(d, c)
      [] d.p = TRACE_COLLECT_BA_ALT_FORMAT -> CollectBAAlt(d, c)
      [] d.p = TRACE_COLLECT_BA_STD_FORMAT -> CollectBAStd(d, c)
      [] d.p = TRACE_COLLECT_EXCEPTION     -> CollectException(d, c)
      [] d.p = TRACE_GET_VMID              -> GetVMID(d, c)
      [] d.p = TRACE_GET_TSTAMP            -> GetTStamp(d, c)
      [] d.p = TRACE_GET_CYCLECOUNT        -> GetCycleCount(d, c)
      [] d.p = TRACE_GET_CONTEXTID         -> GetContextID(d, c, ub)
      [] d.p = TRACE_WAIT_ISYNC            -> WaitISync(d, c)
      [] d.p = TRACE_GET_CONTEXTBYTE       -> GetContextByte(d, c, ub)
      [] d.p = TRACE_GET_INFOBYTE          -> GetInfoByte(d, c)
      [] d.p = TRACE_GET_IADDRESS          -> GetIAddress(d, c)
      [] d.p = TRACE_GET_ICYCLECOUNT       -> GetICycleCount(d, c)

\* (mutant) the A-Sync threshold off by one
ASyncComplete_OffByOne(d, c) == d.asyncCount > 5 /\ c = 128

\* The A-Sync accumulation check: ( i->asyncCount >= 5 ) && ( c == 0x80 )
ASyncComplete(d, c) == d.asyncCount >= 5 /\ c = 128

\* (mutant) A-Sync completion also forgets the ISYNC
ASyncResync_DropsISync(d) ==
    R([d EXCEPT !.p = TRACE_IDLE, !.rxedISYNC = FALSE], TRACE_EV_NONE)

\* A-Sync Accumulation complete: newState = TRACE_IDLE, and nothing else
ASyncResync(d) == R([d EXCEPT !.p = TRACE_IDLE], TRACE_EV_NONE)

\* i->asyncCount = c ? 0 : i->asyncCount + 1
ASyncAccumulate(d, c) == [d EXCEPT !.asyncCount = IF c # 0 THEN 0 ELSE @ + 1]

\* (mutant) the callback not held back until the first ISYNC
ETMEmits_NoISyncTest(d, ev) == ev # TRACE_EV_NONE

\* ( retVal != TRACE_EV_NONE ) && ( i->rxedISYNC )
ETMEmits(d, ev) == ev # TRACE_EV_NONE /\ d.rxedISYNC

\* (mutant) the callback made where the message completes and again on the way out
ETM35DecoderPumpAction_CallsTwice(d, c, ub) ==
    LET r == IF ASyncComplete(d, c)
             THEN ASyncResync(d)
             ELSE Dispatch(ASyncAccumulate(d, c), c, ub)
    IN  [d |-> r.d, cb |-> IF ETMEmits(r.d, r.ev) THEN 2 ELSE 0]

\* _ETM35DecoderPumpAction: the decoder after the octet, and whether cb( d ) ran
ETM35DecoderPumpAction(d, c, ub) ==
    LET r == IF ASyncComplete(d, c)
             THEN ASyncResync(d)
             ELSE Dispatch(ASyncAccumulate(d, c), c, ub)
    IN  [d |-> r.d, cb |-> IF ETMEmits(r.d, r.ev) THEN 1 ELSE 0]

\* retVal != TRACE_EV_NONE
MTBEmits(d, ev) == ev # TRACE_EV_NONE

\* (mutant) toAddr taken from dest
MTBDecoderPumpAction_ToAddrFromDest(d, source, dest) ==
    LET next == (dest \ {0}) \cup (source \cap {0})
        r == CASE d.p = TRACE_UNSYNCED ->
                      LET d1 == [d EXCEPT !.cpu.nextAddr = next]
                          d2 == IF 0 \in dest THEN StateChange(d1, "TRACESTART") ELSE d1
                      IN  R([d2 EXCEPT !.p = TRACE_IDLE], TRACE_EV_NONE)
               [] OTHER ->
                      LET d1 == IF 0 \in d.cpu.nextAddr THEN StateChange(d, "EX_ENTRY") ELSE d
                          d2 == IF 0 \in dest THEN StateChange(d1, "TRACESTART") ELSE d1
                          d3 == [d2 EXCEPT !.cpu.addr = d.cpu.nextAddr \ {0},
                                           !.cpu.nextAddr = next,
                                           !.cpu.toAddr = dest \ {0},
                                           !.cpu.exception = 0]
                      IN  R(StateChange(StateChange(d3, "ADDRESS"), "LINEAR"), TRACE_EV_MSG_RXED)
    IN  [d |-> r.d, cb |-> IF MTBEmits(r.d, r.ev) THEN 1 ELSE 0, trap |-> FALSE]

\* _MTBDecoderPumpAction: source and dest are 32-bit words
MTBDecoderPumpAction(d, source, dest) ==
    LET next == (dest \ {0}) \cup (source \cap {0})
        r == CASE d.p = TRACE_UNSYNCED ->
                      LET d1 == [d EXCEPT !.cpu.nextAddr = next]
                          d2 == IF 0 \in dest THEN StateChange(d1, "TRACESTART") ELSE d1
                      IN  R([d2 EXCEPT !.p = TRACE_IDLE], TRACE_EV_NONE)
               [] d.p = TRACE_IDLE ->
                      LET d1 == IF 0 \in d.cpu.nextAddr THEN StateChange(d, "EX_ENTRY") ELSE d
                          d2 == IF 0 \in dest THEN StateChange(d1, "TRACESTART") ELSE d1
                          d3 == [d2 EXCEPT !.cpu.addr = d.cpu.nextAddr \ {0},
                                           !.cpu.nextAddr = next,
                                           !.cpu.toAddr = source \ {0},
                                           !.cpu.exception = 0]
                      IN  R(StateChange(StateChange(d3, "ADDRESS"), "LINEAR"), TRACE_EV_MSG_RXED)
               [] OTHER -> R(d, "assert")
    IN  [d |-> r.d, cb |-> IF r.ev # "assert" /\ MTBEmits(r.d, r.ev) THEN 1 ELSE 0,
         trap |-> r.ev = "assert"]

----------------------------------------------------------------------------
(* Bounds of the model and the inputs it enumerates *)

MaxAsyncCount == 6   \* 0x00 octets are pumped while asyncCount is below this
MaxInstCount  == 2   \* P-header octets are pumped while cpu.instCount is below this
MaxByteCount  == 6   \* octets are pumped while byteCount is below this
MaxSyncCount  == 1   \* force_sync is called while both statistics are below this

\* The configurations a caller sets up: TRACEDecoderInit's two arguments, and the
\* public configuration fields of the struct, which the caller writes directly
Configs ==
    [protocol : {TRACE_PROT_ETM35, TRACE_PROT_MTB}, usingAltAddrEncode : BOOLEAN,
     contextBytes : {0, 1, 2, 4}, cycleAccurate : BOOLEAN, dataOnlyMode : BOOLEAN]

\* Sync control does not read the address encoding: the standard one stands for both
SyncConfigs == {cfg \in Configs : ~cfg.usingAltAddrEncode}

\* The octets pumped at a packet boundary: A-Sync filler, Normal ISYNC, Trigger,
\* and 0x80 (the A-Sync terminator, and a P-header with no atoms)
HeaderBytes == {0, 8, 12, 128}

\* The octets pumped inside a packet: 0x00, and the A-Sync terminator once five
\* 0x00 octets have gone by
PayloadBytes(d) == IF d.asyncCount >= 5 THEN {0, 128} ELSE {0}

\* The 32-bit words of the MTB pairs pumped
MTBWords == {Bits(256), Bits(257)}

\* The change kinds the consumer polls
PolledKinds == {"TRIGGER"}

----------------------------------------------------------------------------
(* Externally available routines *)

\* The CPU-state record after memset( i, 0, ... )
ZeroCPU ==
    [addr |-> {}, nextAddr |-> {}, toAddr |-> {}, addrMode |-> TRACE_ADDRMODE_ARM,
     thumb |-> FALSE, jazelle |-> FALSE, altISA |-> FALSE, nonSecure |-> FALSE,
     hyp |-> FALSE, contextID |-> {}, vmid |-> 0, ts |-> {}, cycleCount |-> {},
     instCount |-> 0, eatoms |-> 0, natoms |-> 0, watoms |-> 0, disposition |-> 0,
     exception |-> 0, resume |-> 0, reason |-> 0, isLSiP |-> FALSE, changeRecord |-> {}]

\* The statistics after memset( &i->stats, 0, ... )
ZeroedStats == [syncCount |-> 0, lostSyncCount |-> 0]

\* TRACEDecodeProtocol: the protocol is stored, nothing else is touched
TRACEDecodeProtocol(d, protocol) == [d EXCEPT !.protocol = protocol]

\* TRACEDecoderInit, followed by the caller's configuration
TRACEDecoderInit(cfg) ==
    [stats |-> ZeroedStats, p |-> TRACE_UNSYNCED,
     usingAltAddrEncode |-> cfg.usingAltAddrEncode, contextBytes |-> cfg.contextBytes,
     cycleAccurate |-> cfg.cycleAccurate, dataOnlyMode |-> cfg.dataOnlyMode,
     asyncCount |-> 0, rxedISYNC |-> FALSE, addrConstruct |-> {}, tsConstruct |-> {},
     cycleConstruct |-> {}, contextConstruct |-> {}, byteCount |-> 0,
     cpu |-> ZeroCPU, protocol |-> cfg.protocol]

\* (mutant) zero_stats also restarting the instruction count
TRACEDecoderZeroStats_ZeroesCount(d) ==
    [d EXCEPT !.stats = ZeroedStats, !.cpu.instCount = 0]

\* TRACEDecoderZeroStats
TRACEDecoderZeroStats(d) == [d EXCEPT !.stats = ZeroedStats]

\* TRACEDecoderIsSynced
TRACEDecoderIsSynced(d) == d.p # TRACE_UNSYNCED

\* (mutant) the whole change record cleared by a poll of one kind
TRACEStateChanged_ClearsAll(d, c) ==
    [r |-> c \in d.cpu.changeRecord, d |-> [d EXCEPT !.cpu.changeRecord = {}]]

\* TRACEStateChanged: the return value and the decoder afterwards
TRACEStateChanged(d, c) ==
    [r |-> c \in d.cpu.changeRecord, d |-> [d EXCEPT !.cpu.changeRecord = @ \ {c}]]

\* (mutant) the test of isSynced missing on the synced side
TRACEDecoderForceSync_AlwaysDesyncs(d, isSynced) ==
    IF d.p = TRACE_UNSYNCED
    THEN IF isSynced
         THEN [d EXCEPT !.p = TRACE_IDLE, !.stats.syncCount = @ + 1]
         ELSE d
    ELSE [d EXCEPT !.stats.lostSyncCount = @ + 1, !.asyncCount = 0,
                   !.rxedISYNC = FALSE, !.p = TRACE_UNSYNCED]

\* (mutant) a forced desync that leaves asyncCount as it was
TRACEDecoderForceSync_KeepsAsyncCount(d, isSynced) ==
    IF d.p = TRACE_UNSYNCED
    THEN IF isSynced
         THEN [d EXCEPT !.p = TRACE_IDLE, !.stats.syncCount = @ + 1]
         ELSE d
    ELSE IF ~isSynced
         THEN [d EXCEPT !.stats.lostSyncCount = @ + 1,
                        !.rxedISYNC = FALSE, !.p = TRACE_UNSYNCED]
         ELSE d

\* (mutant) a forced desync that leaves rxedISYNC as it is
TRACEDecoderForceSync_KeepsISync(d, isSynced) ==
    IF d.p = TRACE_UNSYNCED
    THEN IF isSynced
         THEN [d EXCEPT !.p = TRACE_IDLE, !.stats.syncCount = @ + 1]
         ELSE d
    ELSE IF ~isSynced
         THEN [d EXCEPT !.stats.lostSyncCount = @ + 1, !.asyncCount = 0,
                        !.p = TRACE_UNSYNCED]
         ELSE d

\* TRACEDecoderForceSync
TRACEDecoderForceSync(d, isSynced) ==
    IF d.p = TRACE_UNSYNCED
    THEN IF isSynced
         THEN [d EXCEPT !.p = TRACE_IDLE, !.stats.syncCount = @ + 1]
         ELSE d
    ELSE IF ~isSynced
         THEN [d EXCEPT !.stats.lostSyncCount = @ + 1, !.asyncCount = 0,
                        !.rxedISYNC = FALSE, !.p = TRACE_UNSYNCED]
         ELSE d

----------------------------------------------------------------------------
(* The state machine *)

\* The state after construction with one of the configurations cfgs
InitWith(cfgs) ==
    /\ \E cfg \in cfgs : i = TRACEDecoderInit(cfg)
    /\ cbCount = 0
    /\ op = [kind |-> "init", from |-> TRACE_UNSYNCED]
    /\ zrun = 0
    /\ trapped = FALSE

Init == InitWith(SyncConfigs)

\* The model pumps octet c into d only within its bounds
InBounds(d, c) ==
    /\ (c >= 128 /\ c % 2 = 0) => d.cpu.instCount < MaxInstCount
    /\ d.byteCount < MaxByteCount
    /\ c = 0 => d.asyncCount < MaxAsyncCount

\* The run of 0x00 octets after an operation that leaves the decoder as d
ZRunAfter(d, zeroPumped) ==
    IF d.p = TRACE_UNSYNCED /\ d.asyncCount = 0 THEN 0
    ELSE IF zeroPumped /\ zrun >= 0 THEN zrun + 1
    ELSE -1

\* The builds that differ on the next octet: those of an undefined shift
ShiftChoices(d) ==
    IF d.p \in {TRACE_GET_CONTEXTID, TRACE_GET_CONTEXTBYTE} /\ 8 * d.byteCount >= 32
    THEN ShiftBuilds ELSE {"mod32"}

\* TRACEDecoderPump of one octet, protocol ETM35
PumpOctet(c) ==
    /\ ~trapped
    /\ i.protocol = TRACE_PROT_ETM35
    /\ \E ub \in ShiftChoices(i) :
         LET r == ETM35DecoderPumpAction(i, c, ub)
         IN  /\ i' = r.d
             /\ cbCount' = r.cb
             /\ zrun' = ZRunAfter(r.d, c = 0)
    /\ op' = [kind |-> "pump", c |-> c, from |-> i.p, run |-> zrun]
    /\ UNCHANGED trapped

\* TRACEDecoderPump of one octet within the bounds of the model
PumpETM(c) == InBounds(i, c) /\ PumpOctet(c)

\* TRACEDecoderPump of one (source, dest) pair, protocol MTB
PumpMTB(source, dest) ==
    /\ ~trapped
    /\ i.protocol = TRACE_PROT_MTB
    /\ LET r == MTBDecoderPumpAction(i, source, dest)
       IN  /\ i' = r.d
           /\ cbCount' = r.cb
           /\ trapped' = r.trap
           /\ zrun' = ZRunAfter(r.d, FALSE)
    /\ op' = [kind |-> "pump_pair", source |-> source, dest |-> dest, from |-> i.p]

\* TRACEDecoderForceSync( i, isSynced )
ForceSync(isSynced) ==
    /\ ~trapped
    /\ i.stats.syncCount < MaxSyncCount /\ i.stats.lostSyncCount < MaxSyncCount
    /\ i' = TRACEDecoderForceSync(i, isSynced)
    /\ cbCount' = 0
    /\ zrun' = ZRunAfter(i', FALSE)
    /\ op' = [kind |-> "force_sync", isSynced |-> isSynced, from |-> i.p]
    /\ UNCHANGED trapped

\* TRACEDecodeProtocol( i, protocol ) with a protocol below TRACE_PROT_LIST_END
SetProtocol(protocol) ==
    /\ ~trapped
    /\ i' = TRACEDecodeProtocol(i, protocol)
    /\ cbCount' = 0
    /\ zrun' = ZRunAfter(i', FALSE)
    /\ op' = [kind |-> "set_protocol", protocol |-> protocol, from |-> i.p]
    /\ UNCHANGED trapped

\* TRACEStateChanged( i, c ), returning op.r
StateChanged(c) ==
    /\ ~trapped
    /\ LET r == TRACEStateChanged(i, c)
       IN  /\ i' = r.d
           /\ op' = [kind |-> "state_changed", c |-> c, r |-> r.r, from |-> i.p]
    /\ cbCount' = 0
    /\ zrun' = ZRunAfter(i', FALSE)
    /\ UNCHANGED trapped

\* TRACEDecoderZeroStats( i )
ZeroStats ==
    /\ ~trapped
    /\ i' = TRACEDecoderZeroStats(i)
    /\ cbCount' = 0
    /\ zrun' = ZRunAfter(i', FALSE)
    /\ op' = [kind |-> "zero_stats", from |-> i.p]
    /\ UNCHANGED trapped

\* The octets the sync-control model pumps into the decoder d
SyncInputs(d) ==
    IF d.p \in {TRACE_UNSYNCED, TRACE_IDLE} THEN HeaderBytes ELSE PayloadBytes(d)

Next ==
    \/ \E c \in SyncInputs(i) : PumpETM(c)
    \/ \E s \in MTBWords, t \in MTBWords : PumpMTB(s, t)
    \/ \E b \in BOOLEAN : ForceSync(b)
    \/ \E k \in PolledKinds : StateChanged(k)
    \/ ZeroStats

Spec == Init /\ [][Next]_vars

----------------------------------------------------------------------------
(* The P-header machine: every P-header octet pumped at a packet boundary *)

\* ETM35 with instruction trace off, so that an ISYNC is the header and one info octet
PHeaderConfigs ==
    {cfg \in Configs : /\ cfg.protocol = TRACE_PROT_ETM35 /\ ~cfg.usingAltAddrEncode
                       /\ cfg.contextBytes = 0 /\ cfg.dataOnlyMode}

\* Every octet of the P-header shape 1xxxxxx0
PHeaderBytes == {c \in 128..254 : c % 2 = 0}

\* The octets the P-header model pumps into the decoder d
PHeaderInputs(d) ==
    IF d.p \in {TRACE_UNSYNCED, TRACE_IDLE} THEN {0, 8} \cup PHeaderBytes
    ELSE PayloadBytes(d)

InitPHeader == InitWith(PHeaderConfigs)

NextPHeader ==
    \/ \E c \in PHeaderInputs(i) : PumpETM(c)
    \/ ForceSync(TRUE)
    \/ StateChanged("ENATOMS")

SpecPHeader == InitPHeader /\ [][NextPHeader]_vars

----------------------------------------------------------------------------
(* Claims C1 - C8: sync control and the change record, under Spec *)

\* C1 as stated: whatever the protocol, no pumped unit invokes the message callback
\* while rxedISYNC is false.  (The MTB decoder never tests rxedISYNC.)
C1_CallbackOnlyAfterISync == cbCount > 0 => i.rxedISYNC

\* C1, amended: under protocol ETM35 no pumped octet invokes the message callback
\* while rxedISYNC is false.
C1_ETMCallbackOnlyAfterISync ==
    (i.protocol = TRACE_PROT_ETM35 /\ cbCount > 0) => i.rxedISYNC

\* A Trigger message completed before any ISYNC: its change bit is raised, no callback
C1_Witness ==
    /\ i.protocol = TRACE_PROT_ETM35
    /\ op.kind = "pump" /\ op.c = 12 /\ op.from = TRACE_IDLE
    /\ ~i.rxedISYNC /\ "TRIGGER" \in i.cpu.changeRecord /\ cbCount = 0

\* The change bits a step clears
Lost == i.cpu.changeRecord \ i'.cpu.changeRecord

\* C2 as stated: a set change bit stays set across every pump and force_sync; only
\* TRACEStateChanged for that kind clears it.
C2_StickyBits ==
    [][Lost # {} => (op'.kind = "state_changed" /\ Lost = {op'.c})]_vars

\* C2, amended: a set change bit is cleared only by TRACEStateChanged for that kind,
\* or by the Normal ISYNC header (0x08) processed in IDLE while rxedISYNC is false,
\* which clears the whole change record.
C2_StickyBitsButFirstISync ==
    [][Lost # {} =>
         \/ op'.kind = "state_changed" /\ Lost = {op'.c}
         \/ /\ op'.kind = "pump" /\ op'.c = 8 /\ op'.from = TRACE_IDLE
            /\ ~i.rxedISYNC /\ i'.rxedISYNC /\ i'.cpu.changeRecord = {}]_vars

\* A change bit raised by an earlier octet has survived a forced desync
C2_Witness ==
    /\ op.kind = "force_sync" /\ ~op.isSynced /\ op.from # TRACE_UNSYNCED
    /\ {"TRIGGER", "ENATOMS"} \subseteq i.cpu.changeRecord

\* C3: once rxedISYNC is true it stays true after every pumped octet (and every
\* other operation); only force_sync(false) makes it false again.
C3_ISyncMonotonic ==
    [][(i.rxedISYNC /\ ~i'.rxedISYNC) => (op'.kind = "force_sync" /\ ~op'.isSynced)]_vars

\* rxedISYNC has survived an A-Sync sequence that cut an ISYNC packet short
C3_Witness ==
    /\ i.rxedISYNC /\ op.kind = "pump" /\ op.c = 128
    /\ op.from = TRACE_GET_IADDRESS /\ i.p = TRACE_IDLE

\* C4: from UNSYNCED with asyncCount = 0, under ETM35, N zero octets then 0x80 leave
\* the decoder in IDLE when N >= 5 and in UNSYNCED when N < 5, and none of these
\* octets invokes the callback.
C4_ASyncRecovery ==
    (op.kind = "pump" /\ op.run >= 0) =>
        /\ cbCount = 0
        /\ op.c = 0 => (i.p = TRACE_UNSYNCED /\ zrun = op.run + 1)
        /\ op.c = 128 => i.p = (IF op.run >= 5 THEN TRACE_IDLE ELSE TRACE_UNSYNCED)

\* Six zero octets and 0x80 have taken the decoder from UNSYNCED to IDLE
C4_Witness ==
    /\ op.kind = "pump" /\ op.c = 128 /\ op.run = 6 /\ op.from = TRACE_UNSYNCED
    /\ i.p = TRACE_IDLE /\ i.stats.syncCount = 0

\* C5 as stated: whatever the protocol, UNSYNCED is left only by force_sync(true) or
\* by the 0x80 that completes an A-Sync sequence.
C5_LeaveUnsynced ==
    (op.from = TRACE_UNSYNCED /\ i.p # TRACE_UNSYNCED) =>
        \/ op.kind = "force_sync" /\ op.isSynced
        \/ op.kind = "pump" /\ op.c = 128 /\ i.asyncCount >= 5

\* C5, amended: UNSYNCED is left only by force_sync(true), by the 0x80 that completes
\* an A-Sync sequence (protocol ETM35), or, under protocol MTB, by the first pumped
\* pair, whatever its words.
C5_LeaveUnsyncedOrMTBPair ==
    (op.from = TRACE_UNSYNCED /\ i.p # TRACE_UNSYNCED) =>
        \/ op.kind = "force_sync" /\ op.isSynced
        \/ op.kind = "pump" /\ op.c = 128 /\ i.asyncCount >= 5
        \/ op.kind = "pump_pair" /\ i.protocol = TRACE_PROT_MTB /\ i.p = TRACE_IDLE

\* A Normal ISYNC header pumped into an UNSYNCED decoder has left it UNSYNCED
C5_Witness ==
    /\ op.kind = "pump" /\ op.c = 8 /\ op.from = TRACE_UNSYNCED
    /\ i.p = TRACE_UNSYNCED /\ ~i.rxedISYNC

\* C6: no pump moves the decoder from a synced state to UNSYNCED; the only
\* transition into UNSYNCED from another state is force_sync(false).
C6_DesyncOnlyForced ==
    (op.from # TRACE_UNSYNCED /\ i.p = TRACE_UNSYNCED) =>
        (op.kind = "force_sync" /\ ~op.isSynced)

\* An octet pumped inside an ISYNC packet has moved the decoder on, still synced
C6_Witness ==
    /\ op.kind = "pump" /\ op.from = TRACE_GET_INFOBYTE
    /\ i.p \in {TRACE_GET_IADDRESS, TRACE_IDLE}

\* C7: force_sync(true) in UNSYNCED gives IDLE; force_sync(false) in any other state
\* gives UNSYNCED with asyncCount = 0 and rxedISYNC = false; the other two cases
\* change nothing.  (The statistics count the two transitions.)
C7_ForceSync ==
    [][op'.kind = "force_sync" =>
            IF i.p = TRACE_UNSYNCED /\ op'.isSynced
            THEN /\ i' = [i EXCEPT !.p = TRACE_IDLE, !.stats.syncCount = @ + 1]
                 /\ TRACEDecoderIsSynced(i')
            ELSE IF i.p # TRACE_UNSYNCED /\ ~op'.isSynced
            THEN /\ i' = [i EXCEPT !.p = TRACE_UNSYNCED, !.asyncCount = 0,
                                   !.rxedISYNC = FALSE, !.stats.lostSyncCount = @ + 1]
                 /\ ~TRACEDecoderIsSynced(i')
            ELSE i' = i]_vars

\* A forced desync in the middle of an ISYNC packet, after zero octets were counted
C7_Witness ==
    /\ op.kind = "force_sync" /\ ~op.isSynced /\ op.from = TRACE_GET_IADDRESS
    /\ i.p = TRACE_UNSYNCED /\ i.asyncCount = 0 /\ ~i.rxedISYNC
    /\ i.stats.lostSyncCount = 1

\* C8: TRACEStateChanged(k) returns true iff bit k was set, clears that bit and
\* nothing else; called again with nothing in between it returns false and changes
\* nothing.
C8_TakeChange ==
    [][op'.kind = "state_changed" =>
         /\ op'.r = (op'.c \in i.cpu.changeRecord)
         /\ i' = [i EXCEPT !.cpu.changeRecord = @ \ {op'.c}]
         /\ (op.kind = "state_changed" /\ op.c = op'.c) => (~op'.r /\ i' = i)]_vars

\* A poll has returned true and left another raised bit alone
C8_Witness ==
    /\ op.kind = "state_changed" /\ op.c = "TRIGGER" /\ op.r
    /\ "TRIGGER" \notin i.cpu.changeRecord /\ "ENATOMS" \in i.cpu.changeRecord

----------------------------------------------------------------------------
(* Claims C9 - C10: the Format-1 P-header, under SpecPHeader *)

\* The step decodes a Format-1 P-header: an octet with ( c & 0x83 ) == 0x80 pumped in
\* IDLE, not cycle-accurate, and not taken as the terminator of an A-Sync sequence
Format1Step ==
    /\ op'.kind = "pump" /\ i.p = TRACE_IDLE /\ ~i.cycleAccurate
    /\ op'.c \div 128 = 1 /\ op'.c % 4 = 0
    /\ ~(i.asyncCount >= 5 /\ op'.c = 128)

\* C9 as stated: every octet decoded as a Format-1 P-header (non cycle-accurate)
\* leaves eatoms + natoms <= 15.  (0xFC gives 15 + 1.)
C9_AtomsAtMost15 ==
    [][Format1Step => i'.cpu.eatoms + i'.cpu.natoms <= 15]_vars

\* C9, amended: every octet decoded as a Format-1 P-header (non cycle-accurate)
\* leaves eatoms <= 15, natoms <= 1 and so eatoms + natoms <= 16; the sum is 16 for
\* 0xFC alone.
C9_AtomsAtMost16 ==
    [][Format1Step =>
         /\ i'.cpu.eatoms <= 15 /\ i'.cpu.natoms <= 1
         /\ i'.cpu.eatoms + i'.cpu.natoms <= 16
         /\ (i'.cpu.eatoms + i'.cpu.natoms = 16) <=> (op'.c = 252)]_vars

\* 0xFC has been decoded as a Format-1 P-header with sixteen atoms
C9_Witness ==
    /\ op.kind = "pump" /\ op.c = 252 /\ op.from = TRACE_IDLE /\ ~i.cycleAccurate
    /\ i.cpu.eatoms = 15 /\ i.cpu.natoms = 1 /\ i.cpu.instCount >= 16

\* C10: in IDLE, not cycle-accurate, an octet c with ( c & 0x83 ) == 0x80 that is not
\* an A-Sync terminator gives eatoms = E = ( c & 0x3C ) >> 2, natoms = N = bit 6 of c,
\* disposition = ( 1 << E ) - 1, instCount grown by E + N, ENATOMS raised, the state
\* still IDLE, and exactly one callback when rxedISYNC is true (none otherwise).
C10_Format1Decode ==
    [][Format1Step =>
         LET E == (op'.c \div 4) % 16
             N == (op'.c \div 64) % 2
         IN  /\ i'.cpu.eatoms = E
             /\ i'.cpu.natoms = N
             /\ i'.cpu.disposition = 2^E - 1
             /\ i'.cpu.instCount = i.cpu.instCount + E + N
             /\ "ENATOMS" \in i'.cpu.changeRecord
             /\ i'.p = TRACE_IDLE
             /\ cbCount' = (IF i.rxedISYNC THEN 1 ELSE 0)]_vars

\* 0xCC decoded after an ISYNC: three E atoms, one N atom, one callback
C10_Witness ==
    /\ op.kind = "pump" /\ op.c = 204 /\ op.from = TRACE_IDLE /\ ~i.cycleAccurate
    /\ i.rxedISYNC /\ cbCount = 1
    /\ i.cpu.eatoms = 3 /\ i.cpu.natoms = 1 /\ i.cpu.disposition = 7
    /\ i.cpu.instCount = 5 /\ "ENATOMS" \in i.cpu.changeRecord /\ i.p = TRACE_IDLE

----------------------------------------------------------------------------
(* The atom-count machine: one P-header octet of each format, unmatched ones, and
   every sync and statistics operation *)

\* 0x80 (Format 1 / cycle-accurate Format 0), 0x84 (Format 1), 0x82 (Format 2),
\* 0xA4 (cycle-accurate Format 3), 0x92 (cycle-accurate Format 4), 0x9A (no format)
AtomBytes == {128, 132, 130, 164, 146, 154}

\* The octets the atom-count model pumps into the decoder d
AtomInputs(d) ==
    IF d.p \in {TRACE_UNSYNCED, TRACE_IDLE} THEN {0, 8} \cup AtomBytes
    ELSE PayloadBytes(d)

\* The P-header configurations, and one MTB decoder
AtomConfigs ==
    PHeaderConfigs \cup
    {cfg \in Configs : /\ cfg.protocol = TRACE_PROT_MTB /\ ~cfg.usingAltAddrEncode
                        /\ cfg.contextBytes = 0 /\ ~cfg.cycleAccurate
                        /\ ~cfg.dataOnlyMode}

InitAtoms == InitWith(AtomConfigs)

NextAtoms ==
    \/ \E c \in AtomInputs(i) : PumpETM(c)
    \/ \E s \in MTBWords, t \in MTBWords : PumpMTB(s, t)
    \/ \E b \in BOOLEAN : ForceSync(b)
    \/ ZeroStats

SpecAtoms == InitAtoms /\ [][NextAtoms]_vars

----------------------------------------------------------------------------
(* Replay: TRACEDecoderPump over a whole buffer, keeping what each callback sees *)

MaxReplayLen == 2   \* the longest octet sequence replayed

\* The octets replayed: Normal ISYNC, Trigger, a Format-1 P-header with one E atom
ReplayBytes == {8, 12, 132}

\* The octet sequences replayed
ReplaySeqs == UNION {[1..k -> ReplayBytes] : k \in 1..MaxReplayLen}

RECURSIVE PumpSeq(_, _, _, _)
\* TRACEDecoderPump, protocol ETM35, over the octets S[k..]: the decoder afterwards
\* and the CPU-state record as each invocation of cb finds it
PumpSeq(d, S, k, ub) ==
    IF k > Len(S) THEN [d |-> d, snaps |-> <<>>]
    ELSE LET r    == ETM35DecoderPumpAction(d, S[k], ub)
             rest == PumpSeq(r.d, S, k + 1, ub)
         IN  [d |-> rest.d,
              snaps |-> (IF r.cb > 0 THEN <<r.d.cpu>> ELSE <<>>) \o rest.snaps]

MaxPairs == 2   \* the most MTB pairs a replayed buffer holds

\* The MTB buffers pumped: their pairs, and their length in bytes (the last pair
\* may be cut short, and up to seven more bytes may follow)
PairSeqs == [1..MaxPairs -> MTBWords \X MTBWords]

BufLens == 0..(8 * MaxPairs + 7)

RECURSIVE PumpPairs(_, _, _, _)
\* TRACEDecoderPump, protocol MTB, over len bytes holding the pairs P[k..]: the
\* decoder afterwards, the invocations of cb and the pairs taken
PumpPairs(d, P, k, len) ==
    IF len > 7 /\ k <= Len(P)
    THEN LET r == MTBDecoderPumpAction(d, P[k][1], P[k][2])
         IN  IF r.trap THEN [d |-> r.d, cbs |-> 0, used |-> 1]
             ELSE LET rest == PumpPairs(r.d, P, k + 1, len - 8)
                  IN  [d |-> rest.d, cbs |-> r.cb + rest.cbs, used |-> 1 + rest.used]
    ELSE [d |-> d, cbs |-> 0, used |-> 0]

----------------------------------------------------------------------------
(* The I-Sync machine: ISYNC packets with instruction trace on, between triggers *)

\* ETM35, no context bytes, instruction trace on
ISyncConfigs ==
    {cfg \in Configs : /\ cfg.protocol = TRACE_PROT_ETM35 /\ ~cfg.usingAltAddrEncode
                        /\ cfg.contextBytes = 0 /\ ~cfg.cycleAccurate
                        /\ ~cfg.dataOnlyMode}

\* The info octets pumped: nothing set, everything set
InfoBytes == {0, 255}

\* The k-th (k = 0..3) octet of the I-Sync addresses pumped: ARM and THUMB low
\* octets, with and without bit 1, and high octets with bit 0 clear and set
IAddressBytes(k) ==
    CASE k = 0 -> {0, 1, 2}
      [] k = 1 -> {0, 255}
      [] k = 2 -> {0}
      [] OTHER -> {0, 32, 33}

\* The cycle-count octets pumped: a single, last one
ICycleBytes == {1}

\* The octets the I-Sync model pumps into the decoder d: in IDLE a Normal ISYNC, a
\* Trigger, or, as long as no ISYNC was received, an ISYNC with cycle count
ISyncInputs(d) ==
    CASE d.p = TRACE_IDLE           -> {8, 12} \cup (IF d.rxedISYNC THEN {} ELSE {112})
      [] d.p = TRACE_GET_INFOBYTE   -> InfoBytes
      [] d.p = TRACE_GET_IADDRESS   -> IAddressBytes(d.byteCount)
      [] d.p = TRACE_GET_ICYCLECOUNT -> ICycleBytes
      [] OTHER                      -> {}

InitISync == InitWith(ISyncConfigs)

NextISync ==
    \/ \E c \in ISyncInputs(i) : PumpETM(c)
    \/ ForceSync(TRUE)

SpecISync == InitISync /\ [][NextISync]_vars

----------------------------------------------------------------------------
(* The branch machine: branch-address packets in both encodings, in ARM and THUMB *)

\* ETM35 in either address encoding, no context bytes, instruction trace on
BranchConfigs ==
    {cfg \in Configs : /\ cfg.protocol = TRACE_PROT_ETM35 /\ cfg.contextBytes = 0
                        /\ ~cfg.cycleAccurate /\ ~cfg.dataOnlyMode}

\* The octets that continue or end a branch address: a last one with payload 0x02,
\* and a continued one with every bit set
BranchBytes == {2, 255}

\* The octets the branch model pumps into the decoder d: in IDLE a Normal ISYNC
\* (its address 0 or 1 selects ARM or THUMB), or the first octet of a branch
\* address, ended (0x03) or continued (0x81)
BranchInputs(d) ==
    CASE d.p = TRACE_IDLE                  -> {8, 3, 129}
      [] d.p = TRACE_GET_INFOBYTE          -> {0}
      [] d.p = TRACE_GET_IADDRESS          -> IF d.byteCount = 0 THEN {0, 1} ELSE {0}
      [] d.p = TRACE_COLLECT_BA_STD_FORMAT -> BranchBytes
      [] d.p = TRACE_COLLECT_BA_ALT_FORMAT -> BranchBytes
      [] d.p = TRACE_COLLECT_EXCEPTION     ->
             IF d.byteCount = 0 THEN {0, 128} ELSE {0, 128, 192}
      [] OTHER                             -> {}

InitBranch == InitWith(BranchConfigs)

NextBranch ==
    \/ \E c \in BranchInputs(i) : PumpETM(c)
    \/ \E b \in BOOLEAN : ForceSync(b)

SpecBranch == InitBranch /\ [][NextBranch]_vars

----------------------------------------------------------------------------
(* The MTB machine: pairs whose sources and destinations differ, polled in between *)

\* One MTB decoder
MTBConfigs ==
    {cfg \in Configs : /\ cfg.protocol = TRACE_PROT_MTB /\ ~cfg.usingAltAddrEncode
                        /\ cfg.contextBytes = 0 /\ ~cfg.cycleAccurate
                        /\ ~cfg.dataOnlyMode}

\* The source words pumped: 0x100, 0x101 (after an exception), 0x300
MTBSources == {Bits(256), Bits(257), Bits(768)}

\* The destination words pumped: 0x200, 0x201 (start of trace), 0x400
MTBDests == {Bits(512), Bits(513), Bits(1024)}

InitMTB == InitWith(MTBConfigs)

NextMTB ==
    \/ \E s \in MTBSources, t \in MTBDests : PumpMTB(s, t)
    \/ \E b \in BOOLEAN : ForceSync(b)
    \/ \E k \in {"EX_ENTRY", "TRACESTART", "ADDRESS"} : StateChanged(k)

SpecMTB == InitMTB /\ [][NextMTB]_vars

----------------------------------------------------------------------------
(* The context machine: Context-ID packets and I-Sync sequences for every
   contextBytes, with and without dataOnlyMode *)

ContextConfigs ==
    {cfg \in Configs : /\ cfg.protocol = TRACE_PROT_ETM35 /\ ~cfg.usingAltAddrEncode
                        /\ ~cfg.cycleAccurate}

\* The k-th (k = 0, 1, ...) octet of the context values pumped
ContextBytes(k) == IF k = 0 THEN {1, 2} ELSE {1}

\* The bits of a context accumulator each of whose octets is at most 3
ContextLowBits == {0, 1, 8, 9, 16, 17, 24, 25}

\* The octets the context model pumps into the decoder d; a Context-ID header only
\* while the accumulator it adds to is small
ContextInputs(d) ==
    CASE d.p = TRACE_IDLE ->
             {8, 112} \cup (IF d.contextConstruct \subseteq ContextLowBits THEN {110} ELSE {})
      [] d.p \in {TRACE_GET_CONTEXTID, TRACE_GET_CONTEXTBYTE} -> ContextBytes(d.byteCount)
      [] d.p = TRACE_GET_ICYCLECOUNT -> ICycleBytes
      [] d.p \in {TRACE_GET_INFOBYTE, TRACE_GET_IADDRESS} -> {0}
      [] OTHER -> {}

InitContext == InitWith(ContextConfigs)

NextContext ==
    \/ \E c \in ContextInputs(i) : PumpETM(c)
    \/ \E b \in BOOLEAN : ForceSync(b)

SpecContext == InitContext /\ [][NextContext]_vars

----------------------------------------------------------------------------
(* The timestamp machine: timestamp packets of up to nine payload octets *)

TStampConfigs == ISyncConfigs

\* The payload octets pumped: continued and last, all payload bits set and clear
TStampBytes == {128, 255, 0, 127}

\* The octets the timestamp model pumps into the decoder d; a timestamp header only
\* while the accumulator it overwrites is all clear or all set
TStampInputs(d) ==
    CASE d.p = TRACE_IDLE       ->
             {8} \cup (IF d.tsConstruct \in {{}, 0..15} THEN {66, 70} ELSE {})
      [] d.p = TRACE_GET_TSTAMP -> TStampBytes
      [] d.p \in {TRACE_GET_INFOBYTE, TRACE_GET_IADDRESS} -> {1}
      [] OTHER                  -> {}

InitTStamp == InitWith(TStampConfigs)

NextTStamp ==
    \/ \E c \in TStampInputs(i) : PumpOctet(c)
    \/ ForceSync(TRUE)
    \/ StateChanged("TSTAMP")

SpecTStamp == InitTStamp /\ [][NextTStamp]_vars

----------------------------------------------------------------------------
(* Claims C11 - C20 *)

\* C11: cpu.instCount never decreases: after every pumped ETM octet, in every state
\* and in both cycle-accurate settings, and after force_sync and zero_stats, it is at
\* least what it was before.
C11_InstCountMonotonic ==
    [][i'.cpu.instCount >= i.cpu.instCount]_vars

\* A counted instruction total has survived a forced desync in cycle-accurate mode
C11_Witness ==
    /\ i.cycleAccurate /\ op.kind = "force_sync" /\ ~op.isSynced
    /\ op.from = TRACE_IDLE /\ i.cpu.instCount >= 2 /\ i.cpu.watoms = 1

\* The snapshots of two passes agree at each callback the two passes both make
SameSnapshots(a, b) ==
    \A k \in 1..Len(a) : k <= Len(b) => a[k] = b[k]

\* C12 as stated: pumping an octet sequence S, calling zero_stats, then pumping S
\* again gives identical CPU-state snapshots at the matching callbacks of the two
\* passes.  (The second pass starts where the first one ended.)
C12_ReplaySamePasses ==
    i.protocol = TRACE_PROT_ETM35 =>
        \A S \in ReplaySeqs, ub \in ShiftChoices(i) :
            LET first  == PumpSeq(i, S, 1, ub)
                second == PumpSeq(TRACEDecoderZeroStats(first.d), S, 1, ub)
            IN  SameSnapshots(first.snaps, second.snaps)

\* C12, amended: zero_stats resets the statistics and nothing the decoding reads:
\* an octet sequence S pumped after zero_stats makes the same callbacks, with
\* identical CPU-state snapshots, and ends in the same decoder (statistics aside),
\* as S pumped from the same decoder without zero_stats.
C12_ReplayFromSameState ==
    i.protocol = TRACE_PROT_ETM35 =>
        \A S \in ReplaySeqs, ub \in ShiftChoices(i) :
            LET plain  == PumpSeq(i, S, 1, ub)
                zeroed == PumpSeq(TRACEDecoderZeroStats(i), S, 1, ub)
            IN  /\ zeroed.snaps = plain.snaps
                /\ zeroed.d = [plain.d EXCEPT !.stats = ZeroedStats]

\* After an ISYNC and counted atoms, with a forced sync on the statistics, zero_stats
\* has been called and a replayed P-header makes a callback
C12_Witness ==
    /\ op.kind = "zero_stats" /\ op.from = TRACE_IDLE /\ i.rxedISYNC
    /\ i.cpu.instCount > 0 /\ i.stats = ZeroedStats
    /\ Len(PumpSeq(i, <<132>>, 1, "mod32").snaps) = 1

\* C13: each pumped unit invokes the callback at most once; a pump of len bytes
\* invokes it at most len times under ETM35, and under MTB takes floor(len / 8) pairs,
\* leaves the trailing bytes alone and invokes it at most floor(len / 8) times.  (The
\* callback runs inside the pump action: there is no queue to drain afterwards.)
C13_OneCallbackPerUnit ==
    /\ cbCount <= 1
    /\ i.protocol = TRACE_PROT_ETM35 =>
           \A S \in ReplaySeqs, ub \in ShiftChoices(i) :
               Len(PumpSeq(i, S, 1, ub).snaps) <= Len(S)
    /\ i.protocol = TRACE_PROT_MTB =>
           \A P \in PairSeqs, len \in BufLens :
               LET r == PumpPairs(i, P, 1, len)
               IN  r.used = len \div 8 /\ r.cbs <= len \div 8

\* An MTB pair pumped in IDLE has made its one callback, and a buffer of 15 bytes
\* pumped next would take one pair and make one more
C13_Witness ==
    /\ op.kind = "pump_pair" /\ op.from = TRACE_IDLE /\ cbCount = 1
    /\ \E P \in PairSeqs :
          LET r == PumpPairs(i, P, 1, 15) IN r.used = 1 /\ r.cbs = 1

\* The 32-bit word whose octets, low one first, are a0, a1, a2, a3
LE32(a0, a1, a2, a3) ==
    Bits(a0) \cup Shl(Bits(a1), 8, 32) \cup Shl(Bits(a2), 16, 32) \cup Shl(Bits(a3), 24, 32)

\* The I-Sync packets replayed: header 0x08, an info octet, four address octets
ISyncPackets ==
    {<<8, f, a0, a1, a2, a3>> :
        f \in InfoBytes, a0 \in IAddressBytes(0), a1 \in IAddressBytes(1),
        a2 \in IAddressBytes(2), a3 \in IAddressBytes(3)}

\* C14: with contextBytes = 0 and dataOnlyMode false, the packet 0x08, info octet,
\* four address octets (little-endian value A) pumped from IDLE with jazelle clear
\* ends in IDLE with ADDRESS raised and one callback; bit 0 of A clear gives
\* addrMode ARM and cpu.addr = A & 0xFFFFFFFC, bit 0 set gives addrMode THUMB and
\* cpu.addr = A with bit 0 cleared.
C14_ISyncAddress ==
    (i.p = TRACE_IDLE /\ ~i.cpu.jazelle) =>
        \A S \in ISyncPackets, ub \in ShiftChoices(i) :
            LET r == PumpSeq(i, S, 1, ub)
                A == LE32(S[3], S[4], S[5], S[6])
            IN  /\ r.d.p = TRACE_IDLE
                /\ "ADDRESS" \in r.d.cpu.changeRecord
                /\ Len(r.snaps) = 1
                /\ r.snaps[1] = r.d.cpu
                /\ IF 0 \in A
                   THEN r.d.cpu.addrMode = TRACE_ADDRMODE_THUMB /\ r.d.cpu.addr = A \ {0}
                   ELSE r.d.cpu.addrMode = TRACE_ADDRMODE_ARM /\ r.d.cpu.addr = A \ {0, 1}

\* The packet 08 00 00 00 00 20 has been pumped octet by octet: ARM, 0x20000000
C14_Witness ==
    /\ op.kind = "pump" /\ op.c = 32 /\ op.from = TRACE_GET_IADDRESS
    /\ i.p = TRACE_IDLE /\ cbCount = 1 /\ "ADDRESS" \in i.cpu.changeRecord
    /\ i.cpu.addrMode = TRACE_ADDRMODE_ARM /\ i.cpu.addr = {29}
    /\ i.stats.syncCount = 1

\* A branch-address packet of n + 1 octets: 0x81, then n - 1 continued octets with
\* every payload bit set, then the last octet b
BranchPacket(n, b) == <<129>> \o [k \in 1..(n - 1) |-> 255] \o <<b>>

\* The address bits from offset 7 + ofs up to the end of the window of octet n, when
\* every continuation octet k lands at offset 7 * k + ofs: ones from the continued
\* octets, then the six payload bits of b
BranchExpected(n, b, ofs) ==
    ((7 + ofs)..(7 * n + ofs - 1) \cup Shl(Bits(BitAnd(b, 63)), 7 * n + ofs, 32)) \cap (0..31)

\* C15 as stated: for a branch-address packet started in IDLE, in the standard and in
\* the alternate encoding, continuation octet k (k = 1..4) places its payload bits in
\* the address at bit offset 7 * k + ofs; in THUMB mode with addrConstruct 0 the octets
\* 0x81, 0x02 commit cpu.addr = 0x100 with ADDRESS raised.  (The standard encoding
\* masks the octet with the shifted window instead of shifting the octet.)
C15_BranchBitPlacement ==
    i.p = TRACE_IDLE =>
        \A n \in 1..4, b \in {2, 62}, ub \in ShiftBuilds :
            LET r   == PumpSeq(i, BranchPacket(n, b), 1, ub)
                ofs == AddrOfs(i)
            IN  /\ r.d.p = TRACE_IDLE
                /\ "ADDRESS" \in r.d.cpu.changeRecord
                /\ r.d.cpu.addr \cap ((7 + ofs)..(7 * n + ofs + 5))
                       = BranchExpected(n, b, ofs)
                /\ (i.cpu.addrMode = TRACE_ADDRMODE_THUMB /\ i.addrConstruct = {}
                        /\ n = 1 /\ b = 2)
                     => r.d.cpu.addr = {8}

\* The two branch-address collection states
BAStates == {TRACE_COLLECT_BA_STD_FORMAT, TRACE_COLLECT_BA_ALT_FORMAT}

\* Octets with every combination of bit 7 and bit 6 (and of bit 0, for a first octet)
ProbeBytes == {0, 1, 2, 3, 66, 67, 128, 129, 130, 192, 193, 255}

\* C16: a branch-address packet started by a first octet in IDLE takes at most five
\* octets: the first one leaves byteCount = 1, each further one adds 1, byteCount
\* stays within 1..4 while collecting, the fifth octet at the latest leaves the
\* collection state, and leaving it is to IDLE or COLLECT_EXCEPTION with cpu.addr
\* committed from addrConstruct, whatever the octet values.
C16_BranchAtMostFive ==
    /\ i.p \in BAStates => i.byteCount \in 1..4
    /\ i.p \in BAStates \cup {TRACE_IDLE} =>
          \A c \in ProbeBytes, ub \in ShiftBuilds :
              LET r       == ETM35DecoderPumpAction(i, c, ub).d
                  started == i.p = TRACE_IDLE /\ c % 2 = 1
              IN  (started \/ i.p \in BAStates) =>
                    /\ r.byteCount <= 5
                    /\ r.p \in BAStates =>
                          r.byteCount = (IF started THEN 1 ELSE i.byteCount + 1)
                    /\ (i.p \in BAStates /\ i.byteCount = 4) => r.p \notin BAStates
                    /\ r.p \notin BAStates =>
                          /\ r.p \in {TRACE_IDLE, TRACE_COLLECT_EXCEPTION}
                          /\ r.cpu.addr = r.addrConstruct

\* The fifth octet of a branch-address packet has ended it, back in IDLE
C16_Witness ==
    /\ op.kind = "pump" /\ op.from \in BAStates /\ op.c = 2
    /\ i.p = TRACE_IDLE /\ i.byteCount = 5 /\ i.cpu.addr = i.addrConstruct
    /\ cbCount = 1

\* The change bits a pair with start-of-trace flag t raises on top of base
PairRaises(base, t) == base \cup (IF t THEN {"TRACESTART"} ELSE {})

\* C17: under MTB a pair (s, d) pumped in UNSYNCED only seeds nextAddr =
\* (d & ~1) | (s & 1), raises TRACESTART iff d & 1, moves to IDLE and emits nothing;
\* a pair pumped in IDLE sets cpu.addr = nextAddr & ~1 (the previous pair's d & ~1),
\* toAddr = s & ~1, nextAddr = (d & ~1) | (s & 1), exception = 0, raises ADDRESS
\* and LINEAR, EX_ENTRY iff nextAddr & 1 (the previous pair's s & 1), TRACESTART iff
\* d & 1, and emits exactly one message; nothing else changes.
C17_MTBPairs ==
    [][op'.kind = "pump_pair" =>
         LET s    == op'.source
             d    == op'.dest
             next == (d \ {0}) \cup (s \cap {0})
         IN  IF i.p = TRACE_UNSYNCED
             THEN /\ i' = [i EXCEPT !.cpu.nextAddr = next, !.p = TRACE_IDLE,
                                     !.cpu.changeRecord = PairRaises(@, 0 \in d)]
                  /\ cbCount' = 0
             ELSE /\ i' = [i EXCEPT !.cpu.addr = i.cpu.nextAddr \ {0},
                                     !.cpu.toAddr = s \ {0},
                                     !.cpu.nextAddr = next,
                                     !.cpu.exception = 0,
                                     !.cpu.changeRecord =
                                         PairRaises(@ \cup {"ADDRESS", "LINEAR"}
                                                      \cup (IF 0 \in i.cpu.nextAddr
                                                            THEN {"EX_ENTRY"} ELSE {}),
                                                    0 \in d)]
                  /\ cbCount' = 1
                  /\ op.kind = "pump_pair" =>
                        /\ i'.cpu.addr = op.dest \ {0}
                        /\ ("EX_ENTRY" \in i'.cpu.changeRecord \ i.cpu.changeRecord)
                              => 0 \in op.source
                        /\ (0 \in op.source) => "EX_ENTRY" \in i'.cpu.changeRecord]_vars

\* The second of two pairs: the first one's destination committed, EX_ENTRY raised
\* for its source's low bit, one message
C17_Witness ==
    /\ op.kind = "pump_pair" /\ op.from = TRACE_IDLE /\ cbCount = 1
    /\ op.source = Bits(768) /\ op.dest = Bits(1024)
    /\ i.cpu.addr = Bits(512) /\ i.cpu.toAddr = Bits(768) /\ i.cpu.nextAddr = Bits(1024)
    /\ i.cpu.changeRecord = {"ADDRESS", "LINEAR", "EX_ENTRY", "TRACESTART"}
    /\ i.stats = ZeroedStats

\* The octet c has the P-header shape and matches no format of the decoder d
UnmatchedPHeader(d, c) ==
    /\ BitAnd(c, 129) = 128
    /\ IF ~d.cycleAccurate
       THEN BitAnd(c, 131) # 128 /\ BitAnd(c, 243) # 130
       ELSE /\ c # 128 /\ BitAnd(c, 163) # 128 /\ BitAnd(c, 243) # 130
            /\ BitAnd(c, 160) # 160 /\ BitAnd(c, 251) # 146

\* C18: a P-header first octet (bit 7 set, bit 0 clear) pumped in IDLE that matches
\* no format of the current cycleAccurate setting leaves the decoder in IDLE, invokes
\* no callback and leaves the CPU-state record unchanged; the only field of the
\* decoder it writes is asyncCount (reset by any non-zero octet).
C18_UnmatchedPHeader ==
    [][(op'.kind = "pump" /\ op'.from = TRACE_IDLE /\ UnmatchedPHeader(i, op'.c)) =>
         /\ i'.p = TRACE_IDLE
         /\ cbCount' = 0
         /\ i'.cpu = i.cpu
         /\ i' = [i EXCEPT !.asyncCount = 0]]_vars

\* An unmatched octet pumped after an I-Sync and counted atoms, in either setting
C18_Witness ==
    /\ op.kind = "pump" /\ op.from = TRACE_IDLE /\ UnmatchedPHeader(i, op.c)
    /\ op.c = (IF i.cycleAccurate THEN 194 ELSE 146)
    /\ i.rxedISYNC /\ i.cpu.instCount > 0 /\ "ENATOMS" \in i.cpu.changeRecord
    /\ i.p = TRACE_IDLE /\ cbCount = 0

\* A header octet of H pumped in IDLE counts as a received I-Sync: the first one sets
\* rxedISYNC and clears changeRecord, a later one leaves changeRecord alone
ISyncHeaderStep(H) ==
    (op'.kind = "pump" /\ op'.from = TRACE_IDLE /\ op'.c \in H) =>
        /\ i'.rxedISYNC
        /\ i'.cpu.changeRecord = (IF i.rxedISYNC THEN i.cpu.changeRecord ELSE {})

\* C19: a Normal I-Sync header (0x08) processed in IDLE while rxedISYNC is false sets
\* rxedISYNC and clears changeRecord, and one processed while rxedISYNC is true does
\* not clear changeRecord; an I-Sync-with-cycle-count header (0x70) counts as a
\* received I-Sync in the same way.
C19_ISyncHeaders == [][ISyncHeaderStep({8, 112})]_vars

\* The part of C19 about the Normal I-Sync header alone
C19_NormalISyncHeader == [][ISyncHeaderStep({8})]_vars

\* A whole I-Sync packet with cycle count has been received (header 0x70 pumped
\* before any 0x08, its address just completed) and rxedISYNC is still false
C19_CycleCountISyncUncounted ==
    /\ op.kind = "pump" /\ op.from = TRACE_GET_IADDRESS /\ i.p = TRACE_IDLE
    /\ ~i.rxedISYNC /\ cbCount = 0

\* C20: when the fourth octet of a non-Jazelle I-Sync address is pumped, the THUMB
\* change bit is raised iff bit 0 of the received address differs from the previous
\* cpu.thumb, and afterwards cpu.thumb is true exactly when addrMode = THUMB.
C20_ThumbChange ==
    [][(/\ op'.kind = "pump" /\ op'.from = TRACE_GET_IADDRESS
        /\ i.byteCount = 3 /\ ~i.cpu.jazelle /\ i'.p = TRACE_IDLE) =>
         LET sel == 0 \in i.addrConstruct
         IN  /\ ("THUMB" \in i'.cpu.changeRecord \ i.cpu.changeRecord)
                    => (sel # i.cpu.thumb)
             /\ (sel # i.cpu.thumb) => "THUMB" \in i'.cpu.changeRecord
             /\ i'.cpu.thumb <=> (i'.cpu.addrMode = TRACE_ADDRMODE_THUMB)]_vars

\* A THUMB address received with cpu.thumb false: the mode is THUMB, cpu.thumb stays
\* false and the THUMB change bit is not raised
C20_ThumbUntracked ==
    /\ op.kind = "pump" /\ op.from = TRACE_GET_IADDRESS /\ i.p = TRACE_IDLE
    /\ i.cpu.addrMode = TRACE_ADDRMODE_THUMB /\ ~i.cpu.thumb
    /\ "THUMB" \notin i.cpu.changeRecord /\ i.stats.lostSyncCount = 0

\* An ARM address received with cpu.thumb false: nothing changed and the THUMB
\* change bit is raised
C20_ThumbRaisedUnchanged ==
    /\ op.kind = "pump" /\ op.from = TRACE_GET_IADDRESS /\ i.p = TRACE_IDLE
    /\ i.cpu.addrMode = TRACE_ADDRMODE_ARM /\ ~i.cpu.thumb
    /\ "THUMB" \in i.cpu.changeRecord /\ i.stats.lostSyncCount = 0 /\ op.c = 0

----------------------------------------------------------------------------
(* The protocol machine: the protocol is changed between pumps *)

\* Decoders of either protocol
ProtocolConfigs ==
    {cfg \in Configs : /\ ~cfg.usingAltAddrEncode /\ cfg.contextBytes = 0
                        /\ ~cfg.cycleAccurate /\ ~cfg.dataOnlyMode}

\* The octets pumped: the I-Sync and timestamp headers between packets, a
\* final payload octet within one
ProtocolInputs(d) ==
    IF d.p \in {TRACE_UNSYNCED, TRACE_IDLE} THEN {8, 66} ELSE {1}

InitProtocol == InitWith(ProtocolConfigs)

NextProtocol ==
    \/ \E c \in ProtocolInputs(i) : PumpETM(c)
    \/ PumpMTB(Bits(256), Bits(512))
    \/ \E b \in BOOLEAN : ForceSync(b)
    \/ \E p \in {TRACE_PROT_ETM35, TRACE_PROT_MTB} : SetProtocol(p)

SpecProtocol == InitProtocol /\ [][NextProtocol]_vars

----------------------------------------------------------------------------
(* The info-byte machine: I-Sync packets with every info octet, and branches *)

\* ETM35 in either address encoding, with and without dataOnlyMode
InfoConfigs ==
    {cfg \in Configs : /\ cfg.protocol = TRACE_PROT_ETM35 /\ cfg.contextBytes = 0
                        /\ ~cfg.cycleAccurate}

\* Every octet
Octets == 0..255

\* The octets pumped: between packets the Normal ISYNC header and a branch
\* header, as info octet every octet, ARM and THUMB I-Sync addresses, and a
\* final branch-address octet
InfoInputs(d) ==
    CASE d.p \in {TRACE_UNSYNCED, TRACE_IDLE} -> {8, 129}
      [] d.p = TRACE_GET_INFOBYTE             -> Octets
      [] d.p = TRACE_GET_IADDRESS             -> IF d.byteCount = 0 THEN {0, 1} ELSE {0}
      [] OTHER                                -> {1}

InitInfo == InitWith(InfoConfigs)

NextInfo ==
    \/ \E c \in InfoInputs(i) : PumpETM(c)
    \/ \E b \in BOOLEAN : ForceSync(b)

SpecInfo == InitInfo /\ [][NextInfo]_vars

----------------------------------------------------------------------------
(* The reachability machine: every packet header, every externally available
   routine *)

\* Decoders of either protocol and address encoding with one context byte
ReachConfigs ==
    {cfg \in Configs : /\ cfg.contextBytes = 1 /\ ~cfg.cycleAccurate
                        /\ ~cfg.dataOnlyMode}

\* The octets pumped: before synchronisation the Normal ISYNC header; between
\* packets the headers of the Normal ISYNC, the ISYNC with cycle count, the
\* Context-ID, VMID, timestamp and cycle-count packets and of a branch; in a
\* branch address a final octet without and with exception flag; elsewhere
\* 0x00, a final payload octet that leaves the values collected at zero
ReachInputs(d) ==
    CASE d.p = TRACE_UNSYNCED -> {8}
      [] d.p = TRACE_IDLE     -> {8, 112, 110, 60, 66, 4, 129}
      [] d.p \in {TRACE_COLLECT_BA_STD_FORMAT, TRACE_COLLECT_BA_ALT_FORMAT} -> {0, 66}
      [] OTHER -> {0}

InitReach == InitWith(ReachConfigs)

NextReach ==
    \/ \E c \in ReachInputs(i) : PumpETM(c)
    \/ PumpMTB(Bits(256), Bits(512))
    \/ \E b \in BOOLEAN : ForceSync(b)
    \/ \E p \in {TRACE_PROT_ETM35, TRACE_PROT_MTB} : SetProtocol(p)
    \/ ZeroStats

SpecReach == InitReach /\ [][NextReach]_vars

----------------------------------------------------------------------------
(* Claims C21 - C30 *)

\* The context payloads of n octets replayed
ContextPayloads(n) == [1..n -> {1, 2}]

\* The little-endian value of the octets P
LEValue(P) == UNION {Shl(Bits(P[k]), 8 * (k - 1), 32) : k \in 1..Len(P)}

\* The Context-ID packet with payload P pumped into d leaves IDLE, the value of P in
\* cpu.contextID, and CONTEXTID raised iff that value differs from the one held in old
ContextIDDecoded(d, P, old) ==
    LET r == PumpSeq(d, <<110>> \o P, 1, "mod32")
        v == LEValue(P)
    IN  /\ r.d.p = TRACE_IDLE
        /\ d.rxedISYNC => Len(r.snaps) = 1
        /\ r.d.cpu.contextID = v
        /\ ("CONTEXTID" \in r.d.cpu.changeRecord \ d.cpu.changeRecord) => v # old
        /\ v # old => "CONTEXTID" \in r.d.cpu.changeRecord

\* C21: a Context-ID packet (header 0x6E in IDLE) consumes exactly contextBytes
\* payload octets for every contextBytes in {0, 1, 2, 4} and returns to IDLE with one
\* message; cpu.contextID is then the little-endian value of those octets, whatever
\* packets came before, and CONTEXTID is raised iff that value differs from the
\* contextID held before the packet.
C21_ContextID ==
    i.p = TRACE_IDLE =>
        \A P \in ContextPayloads(i.contextBytes) : ContextIDDecoded(i, P, i.cpu.contextID)

\* What the code does for C21's packet: with contextBytes > 0 and the accumulator at
\* zero (no Context-ID packet since init or the last Normal I-Sync header) the value
\* is the payload's, and CONTEXTID is raised iff the value is not zero
C21_FreshContextID ==
    (i.p = TRACE_IDLE /\ i.contextBytes # 0 /\ i.contextConstruct = {}) =>
        \A P \in ContextPayloads(i.contextBytes) : ContextIDDecoded(i, P, {})

\* A second Context-ID packet has been received: cpu.contextID holds the sum of both
\* payloads (1 + 1 = 2)
C21_ContextSummed ==
    /\ op.kind = "pump" /\ op.from = TRACE_GET_CONTEXTID /\ op.c = 1 /\ i.p = TRACE_IDLE
    /\ i.contextBytes = 1 /\ i.cpu.contextID = Bits(2)

\* A Context-ID packet with contextBytes = 0 is still collecting after four octets
C21_ContextNeverEnds ==
    /\ i.p = TRACE_GET_CONTEXTID /\ i.contextBytes = 0 /\ i.byteCount = 4

\* The I-Sync sequences replayed into d after one of the header sequences H: context
\* octets, the info octet, and the address octets unless dataOnlyMode
ISyncSeqs(d, H) ==
    {h \o P \o <<0>> \o (IF d.dataOnlyMode THEN <<>> ELSE <<0, 0, 0, 0>>) :
        h \in H, P \in ContextPayloads(d.contextBytes)}

\* The sequence S pumped into d ends in IDLE with a message at its last octet and
\* not before
ISyncConsumed(d, S) ==
    \A ub \in ShiftBuilds :
        LET r == PumpSeq(d, S, 1, ub)
            q == PumpSeq(d, SubSeq(S, 1, Len(S) - 1), 1, ub)
        IN  /\ r.d.p = TRACE_IDLE
            /\ r.d.rxedISYNC => Len(r.snaps) = 1
            /\ q.d.p # TRACE_IDLE
            /\ q.snaps = <<>>

\* C22: every I-Sync sequence, entered by header 0x08 or from GET_ICYCLECOUNT after
\* header 0x70 and its cycle-count octet, consumes exactly contextBytes context
\* octets, one info octet and (unless dataOnlyMode) four address octets, and is then
\* back in IDLE with a message emitted, for every contextBytes in {0, 1, 2, 4}.
C22_ISyncSequence ==
    i.p = TRACE_IDLE => \A S \in ISyncSeqs(i, {<<8>>, <<112, 1>>}) : ISyncConsumed(i, S)

\* What the code does for C22's sequences: those entered by header 0x08, and those
\* entered by header 0x70 with contextBytes = 0, are consumed as stated
C22_NormalISyncSequence ==
    i.p = TRACE_IDLE =>
        \A S \in ISyncSeqs(i, {<<8>>} \cup (IF i.contextBytes = 0 THEN {<<112, 1>>} ELSE {})) :
            ISyncConsumed(i, S)

\* After header 0x70 the context collection has taken more octets than contextBytes
C22_ContextOverrun ==
    /\ i.p = TRACE_GET_CONTEXTBYTE /\ i.contextBytes = 1 /\ i.byteCount = 3
    /\ op.kind = "pump" /\ op.from = TRACE_GET_CONTEXTBYTE

\* The bits payload octet k of a timestamp overwrites
TStampWindow(k) == IF k < 8 THEN k..(k + 6) ELSE 8..15

\* C23: a timestamp packet (header with (c & 0xFB) = 0x42 in IDLE) ends at the first
\* payload octet whose bit 7 is clear or at the 9th payload octet, whichever comes
\* first, and never later; at that octet cpu.ts is set to tsConstruct, TSTAMP is
\* raised, one message is emitted and the state returns to IDLE; payload octet k for
\* k in 0..7 overwrites the 7-bit window starting at bit k and octet 8 overwrites
\* bits 8..15.
C23_TStamp ==
    [][/\ (op'.kind = "pump" /\ op'.from = TRACE_IDLE /\ BitAnd(op'.c, 251) = 66) =>
             (i'.p = TRACE_GET_TSTAMP /\ i'.byteCount = 0 /\ cbCount' = 0)
       /\ (op'.kind = "pump" /\ op'.from = TRACE_GET_TSTAMP) =>
             LET k == i.byteCount
                 c == op'.c
                 v == IF k < 8 THEN BitAnd(c, 127) ELSE c
             IN  /\ k <= 8
                 /\ i'.tsConstruct = (i.tsConstruct \ TStampWindow(k)) \cup Shl(Bits(v), k, 64)
                 /\ IF c < 128 \/ k = 8
                    THEN /\ i'.p = TRACE_IDLE
                         /\ i'.cpu = [i.cpu EXCEPT !.ts = i'.tsConstruct,
                                                   !.changeRecord = @ \cup {"TSTAMP"}]
                         /\ cbCount' = (IF i.rxedISYNC THEN 1 ELSE 0)
                    ELSE /\ i'.p = TRACE_GET_TSTAMP
                         /\ i'.byteCount = k + 1
                         /\ i'.cpu = i.cpu
                         /\ cbCount' = 0]_vars

\* A timestamp has ended at its ninth payload octet, a continued one, after an I-Sync
C23_Witness ==
    /\ op.kind = "pump" /\ op.from = TRACE_GET_TSTAMP /\ op.c = 255
    /\ i.p = TRACE_IDLE /\ i.byteCount = 9 /\ cbCount = 1
    /\ i.cpu.ts = 0..15 /\ "TSTAMP" \in i.cpu.changeRecord

\* The change bits the octet c raises when pumped into d
RaisedBy(d, c) ==
    ETM35DecoderPumpAction(d, c, "mod32").d.cpu.changeRecord \ d.cpu.changeRecord

\* The octet c pumped into d is exception byte 0
ExceptionByte0(d, c) == d.p = TRACE_COLLECT_EXCEPTION /\ d.byteCount = 0

\* The octet c pumped into d is the fifth octet of an ARM branch with its
\* continuation flag set (bit 7 in the alternate encoding, bit 6 in the standard one)
LegacyException(d, c) ==
    /\ d.p \in BAStates /\ d.byteCount = 4
    /\ d.cpu.addrMode = TRACE_ADDRMODE_ARM
    /\ BitAnd(c, IF d.p = TRACE_COLLECT_BA_ALT_FORMAT THEN 128 ELSE 64) # 0

\* The cancel bit of such an octet
CancelBit(d, c) == BitAnd(c, IF ExceptionByte0(d, c) THEN 32 ELSE 64) # 0

\* The change bits such an octet specifies besides CANCELLED
SpecifiedBy(d, c) ==
    IF ExceptionByte0(d, c)
    THEN (IF (BitAnd(c, 1) # 0) # d.cpu.nonSecure THEN {"SECURE"} ELSE {})
         \cup (IF (BitAnd(c, 64) # 0) # d.cpu.altISA THEN {"ALTISA"} ELSE {})
    ELSE {"EXCEPTION"}

\* Exception information decoded from the octet c after the consumer has taken
\* the change kind k raises CANCELLED iff the cancel bit is set, and besides it
\* only the kinds specified and those of the set extra
CancelledDecoded(c, k, extra) ==
    LET d == TRACEStateChanged(i, k).d
    IN  (ExceptionByte0(d, c) \/ LegacyException(d, c)) =>
            /\ ("CANCELLED" \in RaisedBy(d, c)) => CancelBit(d, c)
            /\ CancelBit(d, c) => "CANCELLED" \in RaisedBy(d, c) \cup d.cpu.changeRecord
            /\ RaisedBy(d, c) \subseteq
                   SpecifiedBy(d, c) \cup (IF CancelBit(d, c) THEN {"CANCELLED"} ELSE extra)

\* C24: when exception information is decoded (exception byte 0 in
\* COLLECT_EXCEPTION, or the legacy 5-octet ARM branch termination) CANCELLED is
\* raised iff the packet's cancel bit is set (bit 5 of exception byte 0, bit 0x40 of
\* the legacy fifth octet), and with the cancel bit clear no change bit is raised
\* other than those the packet specifies (SECURE and ALTISA on change for byte 0,
\* EXCEPTION for the legacy form), whatever the consumer has taken before.
C24_CancelledOnly ==
    \A c \in ProbeBytes, k \in ChangeKinds : CancelledDecoded(c, k, {})

\* What the code does for C24's octets: with the cancel bit clear it raises the
\* change kind whose enumeration value is 0 instead
C24_CancelledOrKindZero ==
    \A c \in ProbeBytes, k \in ChangeKinds : CancelledDecoded(c, k, {EV_CH_0})

\* 1 when the step takes the decoder from UNSYNCED to a synced state, and 1 when it
\* takes it from a synced state to UNSYNCED
Gained == IF i.p = TRACE_UNSYNCED /\ i'.p # TRACE_UNSYNCED THEN 1 ELSE 0

Dropped == IF i.p # TRACE_UNSYNCED /\ i'.p = TRACE_UNSYNCED THEN 1 ELSE 0

\* C25: stats.syncCount counts the transitions from UNSYNCED to a synced state and
\* stats.lostSyncCount those from a synced state to UNSYNCED since the last
\* zero_stats or init, for any interleaving of pump (A-Sync resynchronisation and the
\* MTB first pair included) and force_sync.
C25_StatsCountTransitions ==
    [][IF op'.kind = "zero_stats"
       THEN i'.stats = ZeroedStats
       ELSE /\ i'.stats.syncCount = i.stats.syncCount + Gained
            /\ i'.stats.lostSyncCount = i.stats.lostSyncCount + Dropped]_vars

\* What the code does for C25: lostSyncCount counts every loss of sync, and syncCount
\* counts the syncs forced by force_sync(true) only
C25_StatsCountForced ==
    [][IF op'.kind = "zero_stats"
       THEN i'.stats = ZeroedStats
       ELSE /\ i'.stats.syncCount =
                   i.stats.syncCount + (IF op'.kind = "force_sync" THEN Gained ELSE 0)
            /\ i'.stats.lostSyncCount = i.stats.lostSyncCount + Dropped]_vars

\* An A-Sync sequence has synchronised the decoder and syncCount is still 0
C25_ASyncUncounted ==
    /\ op.kind = "pump" /\ op.c = 128 /\ op.from = TRACE_UNSYNCED /\ i.p = TRACE_IDLE
    /\ i.stats = ZeroedStats

\* The first MTB pair has synchronised the decoder and syncCount is still 0
C25_FirstPairUncounted ==
    /\ op.kind = "pump_pair" /\ op.from = TRACE_UNSYNCED /\ i.p = TRACE_IDLE
    /\ i.stats = ZeroedStats

\* The five octets replayed before a 0x80
ASyncProbes == [1..5 -> {0, 128}]

\* C26: the decoder takes the A-Sync transition (forcing the state to IDLE on a 0x80
\* octet, bypassing the per-state dispatch, which would have reset asyncCount) only
\* when the five octets pumped immediately before that 0x80 were all 0x00; in
\* particular a 0x80 that directly follows a completed A-Sync is dispatched as an
\* ordinary packet octet.
C26_ASyncOnlyAfterFiveZeros ==
    i.protocol = TRACE_PROT_ETM35 =>
        \A S \in ASyncProbes, ub \in ShiftBuilds :
            LET before == PumpSeq(i, S, 1, ub).d
                after  == ETM35DecoderPumpAction(before, 128, ub).d
            IN  after.asyncCount # 0 => \A k \in 1..5 : S[k] = 0

\* What the code does for C26: the transition is taken only on a 0x80 that follows
\* five octets each of which is 0x00 or a 0x80 that itself took the transition
C26_ASyncAfterZerosOrASync ==
    i.protocol = TRACE_PROT_ETM35 =>
        \A S \in ASyncProbes, ub \in ShiftBuilds :
            LET before == PumpSeq(i, S, 1, ub).d
                after  == ETM35DecoderPumpAction(before, 128, ub).d
            IN  after.asyncCount # 0 =>
                    \A k \in 1..5 :
                        S[k] = 128 => PumpSeq(i, SubSeq(S, 1, k), 1, ub).d.asyncCount # 0

\* The exception octets replayed: every combination of bit 7 and bit 6
ExceptionProbes == [1..3 -> {0, 64, 128, 192}]

\* Some prefix of S pumped into d ends the packet: back in IDLE with a message
EndsWithin(d, S) ==
    \E k \in 1..Len(S) :
        LET r == PumpSeq(d, SubSeq(S, 1, k), 1, "mod32")
        IN  r.d.p = TRACE_IDLE /\ (d.rxedISYNC => Len(r.snaps) = 1)

\* C27: once the decoder has entered COLLECT_EXCEPTION it returns to IDLE and emits
\* a message after at most 3 exception octets (byte 0, optional byte 1, optional
\* byte 2), for every octet sequence.
C27_ExceptionBounded ==
    (i.p = TRACE_COLLECT_EXCEPTION /\ i.byteCount = 0) =>
        \A S \in ExceptionProbes : EndsWithin(i, S)

\* What the code does for C27: the packet is still open after three octets only
\* when byte 0 has bit 7 set and the next two have bits 7 and 6 set (each is taken
\* as exception byte 1 again)
C27_ExceptionOpenOnlyOnRepeat ==
    (i.p = TRACE_COLLECT_EXCEPTION /\ i.byteCount = 0) =>
        \A S \in ExceptionProbes :
            ~EndsWithin(i, S) => (S[1] >= 128 /\ S[2] = 192 /\ S[3] = 192)

\* Exception byte 1 has been received twice and the packet is still open
C27_ExceptionByte1Repeated ==
    /\ i.p = TRACE_COLLECT_EXCEPTION /\ i.byteCount = 1
    /\ op.kind = "pump" /\ op.from = TRACE_COLLECT_EXCEPTION /\ op.c = 192
    /\ i.asyncCount = 0 /\ cbCount = 0

\* The last operation decoded a P-header and emitted its message
PHeaderEmitted ==
    /\ op.kind = "pump" /\ op.from = TRACE_IDLE /\ BitAnd(op.c, 129) = 128
    /\ ~UnmatchedPHeader(i, op.c) /\ i.asyncCount = 0 /\ cbCount = 1

\* cpu.disposition has one 1 bit per E atom, all of them within the header's atoms
DispositionCountsEatoms ==
    /\ Cardinality(Bits(i.cpu.disposition)) = i.cpu.eatoms
    /\ i.cpu.disposition < Pow2(i.cpu.eatoms + i.cpu.natoms)

\* C28: after every P-header that is decoded and emitted (any format, cycle-accurate
\* or not) the number of 1 bits in cpu.disposition equals cpu.eatoms, bit k of
\* disposition being that of the (k+1)-th atom of the header.
C28_Disposition == PHeaderEmitted => DispositionCountsEatoms

\* What the code does for C28: the statement holds for every header but the
\* cycle-accurate formats 0 (disposition is left as it was) and 2 (both E bits
\* land in bit 0)
C28_DispositionButFormats02 ==
    (PHeaderEmitted /\ ~(i.cycleAccurate /\ (op.c = 128 \/ BitAnd(op.c, 243) = 130)))
        => DispositionCountsEatoms

\* A cycle-accurate format-2 header with two E atoms has left disposition = 1
C28_Format2OneBit ==
    /\ PHeaderEmitted /\ i.cycleAccurate /\ op.c = 142
    /\ i.cpu.eatoms = 2 /\ i.cpu.disposition = 1

\* A cycle-accurate format-0 header (no E atom) has left the disposition of the
\* header before it
C28_Format0Stale ==
    /\ PHeaderEmitted /\ i.cycleAccurate /\ op.c = 128
    /\ i.cpu.eatoms = 0 /\ i.cpu.disposition # 0

\* C29: no pumped unit (octet or MTB pair) that finds the decoder in UNSYNCED invokes
\* the message callback, and in every reachable state protoState = UNSYNCED implies
\* rxedISYNC = false.
C29_UnsyncedSilent ==
    /\ (op.kind \in {"pump", "pump_pair"} /\ op.from = TRACE_UNSYNCED) => cbCount = 0
    /\ i.p = TRACE_UNSYNCED => ~i.rxedISYNC

\* After a forced loss of sync a Normal ISYNC header was pumped into the UNSYNCED
\* decoder: no callback, still UNSYNCED, rxedISYNC false
C29_Witness ==
    /\ op.kind = "pump" /\ op.c = 8 /\ op.from = TRACE_UNSYNCED /\ cbCount = 0
    /\ i.p = TRACE_UNSYNCED /\ ~i.rxedISYNC /\ i.stats.lostSyncCount = 1

\* C30: whatever the interleaving of set_protocol, force_sync and pump, the
\* MTB pair decoder is entered only in UNSYNCED or IDLE and its assert( false )
\* is never reached
C30_MTBNeverTraps ==
    /\ ~trapped
    /\ op.kind = "pump_pair" => op.from \in {TRACE_UNSYNCED, TRACE_IDLE}

\* What the code does: a pair traps exactly when it meets a state the ETM35
\* decoder left behind
C30_TrapsOnETMState ==
    trapped <=> (op.kind = "pump_pair" /\ op.from \notin {TRACE_UNSYNCED, TRACE_IDLE})

\* The MTB decoder has trapped on a pair pumped while an I-Sync was open
C30_TrappedInISync ==
    trapped /\ op.kind = "pump_pair" /\ op.from = TRACE_GET_INFOBYTE

----------------------------------------------------------------------------
(* Claims C31 - C32 *)

\* C31: the info-byte masks above bit 7 never match an octet: isLSiP and jazelle
\* stay false, reason stays 0, addrMode is never JAZELLE, the ISLSIP, REASON and
\* JAZELLE change bits are never raised, and the last I-Sync address octet never
\* leads into a branch-address collection
C31_WideMasksNeverMatch ==
    /\ ~i.cpu.isLSiP /\ ~i.cpu.jazelle /\ i.cpu.reason = 0
    /\ i.cpu.addrMode # TRACE_ADDRMODE_JAZELLE
    /\ i.cpu.changeRecord \cap {"ISLSIP", "REASON", "JAZELLE"} = {}
    /\ (op.kind = "pump" /\ op.from = TRACE_GET_IADDRESS) =>
           i.p \in {TRACE_GET_IADDRESS, TRACE_IDLE}

\* An I-Sync whose info octet was 0xFF is complete: of its flags only hyp is set
C31_Witness ==
    /\ op.kind = "pump" /\ op.from = TRACE_GET_IADDRESS /\ i.p = TRACE_IDLE
    /\ i.cpu.hyp /\ "HYP" \in i.cpu.changeRecord
    /\ ~i.cpu.nonSecure /\ ~i.cpu.altISA
    /\ C31_WideMasksNeverMatch

\* The info octet 0xFF has just been pumped
C31_AllBitsPumped ==
    op.kind = "pump" /\ op.from = TRACE_GET_INFOBYTE /\ op.c = 255

\* The protocol states other than WAIT_ISYNC
OtherStates ==
    {TRACE_UNSYNCED, TRACE_IDLE, TRACE_COLLECT_BA_STD_FORMAT, TRACE_COLLECT_BA_ALT_FORMAT,
     TRACE_COLLECT_EXCEPTION, TRACE_GET_VMID, TRACE_GET_TSTAMP, TRACE_GET_CYCLECOUNT,
     TRACE_GET_CONTEXTID, TRACE_GET_CONTEXTBYTE, TRACE_GET_INFOBYTE, TRACE_GET_IADDRESS,
     TRACE_GET_ICYCLECOUNT}

\* C32: no sequence of pump, force_sync, set_protocol and zero_stats puts the
\* decoder into WAIT_ISYNC
C32_WaitISyncUnreachable ==
    i.p # TRACE_WAIT_ISYNC /\ i.p \in OtherStates

\* The cycle count of an ISYNC with cycle count is complete and the decoder has
\* gone on to the context octets, after a desynchronisation and a change of
\* protocol
C32_Witness ==
    /\ op.kind = "pump" /\ op.from = TRACE_GET_ICYCLECOUNT
    /\ i.p = TRACE_GET_CONTEXTBYTE /\ i.p # TRACE_WAIT_ISYNC
    /\ i.stats.lostSyncCount = 1 /\ i.cpu.nextAddr # {}

====
